---- MODULE Spec2Model ----
(***************************************************************************)
(* A model of sauerbraten/crudapi: the CRUD request dispatcher, the guard  *)
(* hook and the map-backed storages.  The repository's files hold several  *)
(* revisions of the same package; each revision that is modelled is a      *)
(* "design", selected by the variable design:                              *)
(*                                                                         *)
(*   "guarded"  src/api.go 219-462 (MountAPI with a Guard), serving from   *)
(*              a map storage that answers with the status codes           *)
(*              src/README.md documents;                                   *)
(*   "example"  the example MapStorage of src/example/example_storage.go   *)
(*              1-181, whose Create/Update receive the decoded resource;   *)
(*   "decoder"  the example MapStorage of src/example/example_storage.go   *)
(*              183-380, whose Create/Update take the *json.Decoder of the *)
(*              request body and decode it themselves;                     *)
(*   "errcode"  src/api.go 464-739 (NewAPI, StorageError results) serving  *)
(*              from the MapStorage of src/mapstorage.go.                  *)
(*                                                                         *)
(*   "callerid" src/unnamed/part_003 (NewAPI with caller-supplied ids)     *)
(*              serving from the MapStorage of src/unnamed/part_000.       *)
(*                                                                         *)
(*   "prefix"   the path prefix handling of NewAPI, src/api.go 494-511.    *)
(*                                                                         *)
(*   "errcode/any"  the StorageError dispatcher over any implementation of *)
(*              the Storage interface of src/storage.go.                   *)
(*                                                                         *)
(* Every handler and every storage method is one atomic action, except in  *)
(* the designs "library/threads", "example/threads", "callerid/threads",   *)
(* "library/steps" and "example/steps", which follow the locked sections   *)
(* of the storage methods step by step.                                    *)
(***************************************************************************)
EXTENDS Integers, Sequences, FiniteSets, Bags, TLC

\* ------------------------------------------------------------------ bounds

\* Resource ids are drawn from 1..NumIds (backend-generated ids and the ids
\* named in request paths).
NumIds == 2

Ids == 1..NumIds

\* Goroutines that call one MapStorage concurrently.
NumThreads == 2

Threads == 1..NumThreads

\* Path prefixes passed to NewAPI are strings of at most MaxPrefixLen
\* characters.
MaxPrefixLen == 4

\* The id slot of a request on the /{kind} shape, and the empty id string.
NoId == 0

\* Collection names; a run uses a subset of them (variable kinds), each of
\* which is registered or not.
Kinds == {"artists", "albums"}

\* url.Values of a request, opaque to the dispatcher.
Params == {"", "key=k1"}

\* Client identities a guard may return from Authenticate.
Clients == {"alice", "bob"}

\* JSON values of a payload: a string, or an integer literal of value
\* hi * 2^53 + lo (hi = 1: an integer beyond the 53 bits of a float64
\* mantissa).
JString(s) == [t |-> "string", s |-> s, hi |-> 0, lo |-> 0]
JNumber(hi, lo) == [t |-> "number", s |-> "", hi |-> hi, lo |-> lo]

\* JSON objects, as sets of <<key, value>> pairs.
Objects == { {<<"name", JString("Gorillaz")>>, <<"albums", JNumber(0, 3)>>},
             {<<"name", JString("Gorillaz")>>, <<"plays", JNumber(1, 1)>>} }

\* Request bodies: a syntax error, well-formed JSON that is no object, or an
\* object.
Malformed == [kind |-> "malformed", obj |-> {}]
NonObject == [kind |-> "nonobject", obj |-> {}]
ObjectBody(o) == [kind |-> "object", obj |-> o]
NoBody == [kind |-> "none", obj |-> {}]
Bodies == {Malformed, NonObject} \cup {ObjectBody(o) : o \in Objects}

\* ------------------------------------------------------------------ state

VARIABLES
    design,    \* which revision of the package is running
    kinds,     \* the collection names the application and its clients use
    guardArg,  \* the guard argument of the last MountAPI call
    g,         \* package variable g: the guard in use
    data,      \* MapStorage.data: collection -> (id -> resource)
    req,       \* the request (or storage call) handled last
    calls,     \* guard and storage calls made while handling req, in order
    sto,       \* what the storage call made for req returned
    out,       \* the response written for req
    threads,   \* per goroutine: the storage method it is in and how far
    pathPrefix \* NewAPI's argument, and the prefix the routes are mounted on

vars ==
    <<design, kinds, guardArg, g, data, req, calls, sto, out, threads,
      pathPrefix>>

\* ---------------------------------------------------------------- helpers

EmptyMap == [x \in {} |-> 0]

\* m with key k set to v (Go: m[k] = v).
MapSet(m, k, v) == [x \in (DOMAIN m) \cup {k} |-> IF x = k THEN v ELSE m[x]]

\* m without key k (Go: delete(m, k)).
MapDelete(m, k) == [x \in (DOMAIN m) \ {k} |-> m[x]]

\* The resources of an id -> resource map as a bag: a Go slice built by
\* ranging over a map has no defined order.
ValuesBag(m) ==
    LET rng == {m[i] : i \in DOMAIN m}
    IN  [r \in rng |-> Cardinality({i \in DOMAIN m : m[i] = r})]

Request(method, shape, kind, id, params, body) ==
    [method |-> method, shape |-> shape, kind |-> kind, id |-> id,
     params |-> params, body |-> body]

\* One guard or storage call made for a request.
Ev(ev, action, kind, id, client, params, ok) ==
    [ev |-> ev, action |-> action, kind |-> kind, id |-> id,
     client |-> client, params |-> params, ok |-> ok]

\* The "result" field of the envelope: absent, one resource, or a list.
Result(tag, val) == [tag |-> tag, val |-> val]
NoResult == Result("absent", EmptyBag)

\* apiResponse plus the status line.  status 0: no response was written
\* (a storage method called directly, or MountAPI).
Response(status, error, id, result) ==
    [status |-> status, error |-> error, id |-> id, result |-> result,
     allow |-> {}]
NoResponse == Response(0, "", NoId, NoResult)

\* A storage status response; nil is the nil interface value.
StatusResponse(statusCode, err) ==
    [nil |-> FALSE, statusCode |-> statusCode, err |-> err]
NilResp == [nil |-> TRUE, statusCode |-> 0, err |-> ""]

\* What a storage method returned: (id, resource(s), status response), and
\* the backing map after the call.
StoRet(id, result, resp, d) ==
    [called |-> TRUE, id |-> id, result |-> result, resp |-> resp, data |-> d]
NotCalled(d) ==
    [called |-> FALSE, id |-> NoId, result |-> NoResult, resp |-> NilResp,
     data |-> d]

\* The float64 a Go interface{} holds for a JSON number.
Float64(hi, lo) == [t |-> "float64", s |-> "", hi |-> hi, lo |-> lo]

\* The nearest float64 of the integer hi * 2^53 + lo, ties to the even
\* mantissa: exact below 2^53; between 2^53 and 2^54 the float64 values
\* are the even integers.
ParseFloat(hi, lo) ==
    IF hi = 0 \/ lo % 2 = 0
    THEN Float64(hi, lo)
    ELSE IF ((lo - 1) \div 2) % 2 = 0
         THEN Float64(hi, lo - 1)
         ELSE Float64(hi, lo + 1)

\* encoding/json into interface{}: a string stays a string, a number
\* becomes a float64.
DecodeValue(v) == IF v.t = "number" THEN ParseFloat(v.hi, v.lo) ELSE v

\* json.Decoder.Decode into a map[string]interface{}: an error for a syntax
\* error and for JSON that is no object.
DecodeMap(body) ==
    IF body.kind = "object"
    THEN [err |-> FALSE,
          val |-> {<<p[1], DecodeValue(p[2])>> : p \in body.obj}]
    ELSE [err |-> TRUE, val |-> {}]

\* json.Encoder.Encode of a stored value: a float64 is written as the
\* shortest decimal that reads back as it, here the integer it holds.
EncodeValue(v) == IF v.t = "float64" THEN JNumber(v.hi, v.lo) ELSE v

EncodeMap(m) == {<<p[1], EncodeValue(p[2])>> : p \in m}

\* The "result" field as encoded: a resource as a JSON object, a slice as
\* a JSON array (a nil slice as null), a nil interface omitted.
Encode(result) ==
    LET b == result.val
        img == {EncodeMap(x) : x \in DOMAIN b}
    IN  Result(CASE result.tag = "resource" -> "object"
                 [] result.tag = "list" -> "array"
                 [] result.tag = "nilslice" -> "null"
                 [] OTHER -> "absent",
               [j \in img |->
                  BagCardinality([x \in {y \in DOMAIN b : EncodeMap(y) = j}
                                    |-> b[x]])])

\* ------------------------------------------------------------------ guard
\* src/guard.go

ActionCreate == "create"
ActionGet == "get"
ActionGetAll == "get all"
ActionUpdate == "update"
ActionDelete == "delete"
ActionDeleteAll == "delete all"

Actions == {ActionCreate, ActionGet, ActionGetAll, ActionUpdate, ActionDelete,
            ActionDeleteAll}

\* The answers a guard supplied by the application may give.  A guard is
\* application code: any answer is possible on any call.
AuthnAnswers ==
    {[ok |-> TRUE, client |-> c, errorMessage |-> ""] : c \in Clients}
    \cup {[ok |-> FALSE, client |-> "", errorMessage |-> "not authenticated"]}

AuthzAnswers ==
    {[ok |-> TRUE, errorMessage |-> ""],
     [ok |-> FALSE, errorMessage |-> "not authorized"]}

\* Authorize is only asked after Authenticate said ok.
GuardChoices ==
    {c \in [an : AuthnAnswers, az : AuthzAnswers] : c.an.ok \/ ~c.az.ok}

\* The answers the guard in use may give: the default guard's and the
\* example MapGuard's are fixed.
AnswersOf(guard) ==
    IF guard \in {"defaultGuard", "MapGuard"}
    THEN {c \in GuardChoices : ~c.an.ok}
    ELSE GuardChoices

defaultGuard_Authenticate(params) ==
    [ok |-> TRUE, client |-> "", errorMessage |-> ""]

defaultGuard_Authorize_NotOk(client, action, kind) ==
    [ok |-> FALSE, errorMessage |-> ""]

defaultGuard_Authorize(client, action, kind) ==
    [ok |-> TRUE, errorMessage |-> ""]

\* The example guard: MapGuard{ValidActions} as main() builds it.  A kind
\* that is no key of the map has the nil slice.
ValidActions(kind) ==
    CASE kind = "artists" -> {ActionCreate, ActionGet, ActionUpdate}
      [] kind = "albums" ->
             {ActionCreate, ActionGet, ActionGetAll, ActionUpdate}
      [] OTHER -> {}

MapGuard_Authenticate(params) ==
    [ok |-> TRUE, client |-> "", errorMessage |-> ""]

\* Variant: an action listed for some kind is allowed on every kind.
MapGuard_Authorize_AnyKind(client, action, kind) ==
    IF \E k \in {"artists", "albums"} : action \in ValidActions(k)
    THEN [ok |-> TRUE, errorMessage |-> ""]
    ELSE [ok |-> FALSE,
          errorMessage |-> "action not allowed for this kind of resource"]

MapGuard_Authorize(client, action, kind) ==
    IF action \in ValidActions(kind)
    THEN [ok |-> TRUE, errorMessage |-> ""]
    ELSE [ok |-> FALSE,
          errorMessage |-> "action not allowed for this kind of resource"]

\* g.Authenticate / g.Authorize: interface dispatch on the guard in use; c
\* holds the answers of an application guard.
Authenticate(guard, params, c) ==
    CASE guard = "defaultGuard" -> defaultGuard_Authenticate(params)
      [] guard = "MapGuard" -> MapGuard_Authenticate(params)
      [] OTHER -> c.an

Authorize(guard, client, action, kind, c) ==
    CASE guard = "defaultGuard" -> defaultGuard_Authorize(client, action, kind)
      [] guard = "MapGuard" -> MapGuard_Authorize(client, action, kind)
      [] OTHER -> c.az

\* The guards MountAPI may be handed: nil, or a guard of the application.
GuardArgs == {"nil", "appGuard"}

\* ---------------------------------------------- example storage, revision 1
\* src/example/example_storage.go 1-181: Create/Update receive the decoded
\* resource.

newMSSR(statusCode, err) == StatusResponse(statusCode, err)

\* resp is passed by value: the assignment to it on the not-found path is
\* to the callee's copy and never reaches the caller.
ensureCollectionExists(ms, collection) == collection \in DOMAIN ms

ensureResourceExists(ms, collection, id) ==
    IF ~ensureCollectionExists(ms, collection)
    THEN [ok |-> FALSE, resource |-> NoResult]
    ELSE IF id \in DOMAIN ms[collection]
         THEN [ok |-> TRUE,
               resource |-> Result("resource", SetToBag({ms[collection][id]}))]
         ELSE [ok |-> FALSE, resource |-> NoResult]

\* newid: strconv.FormatInt(rand.Int63(), 10), any id.
Ex1_Create(ms, collection, resource, newid) ==
    IF ~ensureCollectionExists(ms, collection)
    THEN StoRet(NoId, NoResult, NilResp, ms)
    ELSE StoRet(newid, NoResult, newMSSR(201, ""),
                [ms EXCEPT ![collection] = MapSet(@, newid, resource)])

Ex1_Get(ms, collection, id) ==
    LET e == ensureResourceExists(ms, collection, id)
    IN  IF ~e.ok
        THEN StoRet(NoId, e.resource, NilResp, ms)
        ELSE StoRet(NoId, e.resource, newMSSR(200, ""), ms)

Ex1_GetAll(ms, collection) ==
    IF ~ensureCollectionExists(ms, collection)
    THEN StoRet(NoId, Result("nilslice", EmptyBag), NilResp, ms)
    ELSE StoRet(NoId,
                IF DOMAIN ms[collection] = {}
                THEN Result("nilslice", EmptyBag)
                ELSE Result("list", ValuesBag(ms[collection])),
                newMSSR(200, ""), ms)

Ex1_Update(ms, collection, id, resource) ==
    IF ~ensureResourceExists(ms, collection, id).ok
    THEN StoRet(NoId, NoResult, NilResp, ms)
    ELSE StoRet(NoId, NoResult, newMSSR(200, ""),
                [ms EXCEPT ![collection] = MapSet(@, id, resource)])

Ex1_Delete(ms, collection, id) ==
    IF ~ensureResourceExists(ms, collection, id).ok
    THEN StoRet(NoId, NoResult, NilResp, ms)
    ELSE StoRet(NoId, NoResult, newMSSR(200, ""),
                [ms EXCEPT ![collection] = MapDelete(@, id)])

Ex1_DeleteAll(ms, collection) ==
    IF ~ensureCollectionExists(ms, collection)
    THEN StoRet(NoId, NoResult, NilResp, ms)
    ELSE StoRet(NoId, NoResult, newMSSR(200, ""),
                [ms EXCEPT ![collection] = EmptyMap])

\* AddMap installs a fresh map, DeleteMap removes the collection.
Ex_AddMap(ms, collection) == MapSet(ms, collection, EmptyMap)
Ex_DeleteMap(ms, collection) == MapDelete(ms, collection)

\* ------------------------------------------------- StorageError storage
\* src/mapstorage.go (src/storage.go 47-222 is the same code over
\* map[string]interface{} resources); the StorageError values are those of
\* src/storage.go 12-19.

None == "None"
InternalError == "InternalError"
ResourceExists == "ResourceExists"
ResourceNotFound == "ResourceNotFound"
KindExists == "KindExists"
KindNotFound == "KindNotFound"

\* A StorageError in the place of a status response.
StorageError(err) == StatusResponse(0, err)

Ms_AddMap(ms, kind) ==
    IF kind \in DOMAIN ms
    THEN StoRet(NoId, NoResult, StorageError(KindExists), ms)
    ELSE StoRet(NoId, NoResult, StorageError(None), MapSet(ms, kind, EmptyMap))

\* Variant: DeleteMap drops every kind.
Ms_DeleteMap_DropAll(ms, kind) ==
    IF kind \notin DOMAIN ms
    THEN StoRet(NoId, NoResult, StorageError(KindNotFound), ms)
    ELSE StoRet(NoId, NoResult, StorageError(None), EmptyMap)

Ms_DeleteMap(ms, kind) ==
    IF kind \notin DOMAIN ms
    THEN StoRet(NoId, NoResult, StorageError(KindNotFound), ms)
    ELSE StoRet(NoId, NoResult, StorageError(None), MapDelete(ms, kind))

\* now: time.Now().Unix(), formatted as the id.  The bare return on the
\* unknown-kind path returns the zero values ("", None).
Ms_Create(ms, kind, resource, now) ==
    IF kind \notin DOMAIN ms
    THEN StoRet(NoId, NoResult, StorageError(None), ms)
    ELSE StoRet(now, NoResult, StorageError(None),
                [ms EXCEPT ![kind] = MapSet(@, now, resource)])

Ms_Get(ms, kind, id) ==
    IF kind \notin DOMAIN ms
    THEN StoRet(NoId, NoResult, StorageError(KindNotFound), ms)
    ELSE IF id \notin DOMAIN ms[kind]
    THEN StoRet(NoId, NoResult, StorageError(ResourceNotFound), ms)
    ELSE StoRet(NoId, Result("resource", SetToBag({ms[kind][id]})),
                StorageError(None), ms)

\* The slice returned for an unknown kind is the nil slice, as the one of
\* an empty kind.
Ms_GetAll(ms, kind) ==
    IF kind \notin DOMAIN ms
    THEN StoRet(NoId, Result("nilslice", EmptyBag),
                StorageError(KindNotFound), ms)
    ELSE StoRet(NoId,
                IF DOMAIN ms[kind] = {}
                THEN Result("nilslice", EmptyBag)
                ELSE Result("list", ValuesBag(ms[kind])),
                StorageError(None), ms)

\* Variant: an Update of an absent id stores the resource (upsert).
Ms_Update_Upsert(ms, kind, id, resource) ==
    IF kind \notin DOMAIN ms
    THEN StoRet(NoId, NoResult, StorageError(KindNotFound), ms)
    ELSE StoRet(NoId, NoResult, StorageError(None),
                [ms EXCEPT ![kind] = MapSet(@, id, resource)])

\* Variant: the new resource is merged into the old one, keys of the old
\* resource that the new one lacks survive.
Ms_Update_Merge(ms, kind, id, resource) ==
    IF kind \notin DOMAIN ms
    THEN StoRet(NoId, NoResult, StorageError(KindNotFound), ms)
    ELSE IF id \notin DOMAIN ms[kind]
    THEN StoRet(NoId, NoResult, StorageError(ResourceNotFound), ms)
    ELSE StoRet(NoId, NoResult, StorageError(None),
                [ms EXCEPT ![kind] =
                   MapSet(@, id,
                          resource \cup
                            {p \in ms[kind][id] :
                               \A q \in resource : q[1] # p[1]})])

Ms_Update(ms, kind, id, resource) ==
    IF kind \notin DOMAIN ms
    THEN StoRet(NoId, NoResult, StorageError(KindNotFound), ms)
    ELSE IF id \notin DOMAIN ms[kind]
    THEN StoRet(NoId, NoResult, StorageError(ResourceNotFound), ms)
    ELSE StoRet(NoId, NoResult, StorageError(None),
                [ms EXCEPT ![kind] = MapSet(@, id, resource)])

\* Variant: Delete removes the id from every kind that holds it.
Ms_Delete_EveryKind(ms, kind, id) ==
    IF kind \notin DOMAIN ms
    THEN StoRet(NoId, NoResult, StorageError(KindNotFound), ms)
    ELSE IF id \notin DOMAIN ms[kind]
    THEN StoRet(NoId, NoResult, StorageError(ResourceNotFound), ms)
    ELSE StoRet(NoId, NoResult, StorageError(None),
                [k \in DOMAIN ms |-> MapDelete(ms[k], id)])

\* Variant: a Delete of an absent id succeeds.
Ms_Delete_Idempotent(ms, kind, id) ==
    IF kind \notin DOMAIN ms
    THEN StoRet(NoId, NoResult, StorageError(KindNotFound), ms)
    ELSE StoRet(NoId, NoResult, StorageError(None),
                [ms EXCEPT ![kind] = MapDelete(@, id)])

Ms_Delete(ms, kind, id) ==
    IF kind \notin DOMAIN ms
    THEN StoRet(NoId, NoResult, StorageError(KindNotFound), ms)
    ELSE IF id \notin DOMAIN ms[kind]
    THEN StoRet(NoId, NoResult, StorageError(ResourceNotFound), ms)
    ELSE StoRet(NoId, NoResult, StorageError(None),
                [ms EXCEPT ![kind] = MapDelete(@, id)])

\* Variant: DeleteAll drops the kind's map instead of emptying it.
Ms_DeleteAll_DropKind(ms, kind) ==
    IF kind \notin DOMAIN ms
    THEN StoRet(NoId, NoResult, StorageError(KindNotFound), ms)
    ELSE StoRet(NoId, NoResult, StorageError(None), MapDelete(ms, kind))

Ms_DeleteAll(ms, kind) ==
    IF kind \notin DOMAIN ms
    THEN StoRet(NoId, NoResult, StorageError(KindNotFound), ms)
    ELSE StoRet(NoId, NoResult, StorageError(None),
                [ms EXCEPT ![kind] = EmptyMap])

\* ------------------------------------------- status-response map storage
\* The MapStorage the guarded dispatcher is mounted on returns a status
\* code and an error message.  Its code is not among the sources; it is
\* the map storage above with the status codes src/README.md 141-145
\* documents.

\* The status response for a StorageError; ok is the success status.
ReadmeStatus(err, ok) ==
    CASE err = KindNotFound -> StatusResponse(404, "kind not found")
      [] err = ResourceNotFound -> StatusResponse(404, "resource not found")
      [] OTHER -> StatusResponse(ok, "")

WithReadmeStatus(r, ok) ==
    StoRet(r.id, r.result, ReadmeStatus(r.resp.err, ok), r.data)

\* 404 when the kind posted to is unknown, else 201 and the new id.
Sr_Create(ms, kind, resource, newid) ==
    IF kind \notin DOMAIN ms
    THEN StoRet(NoId, NoResult, ReadmeStatus(KindNotFound, 201), ms)
    ELSE WithReadmeStatus(Ms_Create(ms, kind, resource, newid), 201)

Sr_Get(ms, kind, id) == WithReadmeStatus(Ms_Get(ms, kind, id), 200)
Sr_GetAll(ms, kind) == WithReadmeStatus(Ms_GetAll(ms, kind), 200)
Sr_Update(ms, kind, id, resource) ==
    WithReadmeStatus(Ms_Update(ms, kind, id, resource), 200)
Sr_Delete(ms, kind, id) == WithReadmeStatus(Ms_Delete(ms, kind, id), 200)
Sr_DeleteAll(ms, kind) == WithReadmeStatus(Ms_DeleteAll(ms, kind), 200)

\* --------------------------------------------------- guarded dispatcher
\* src/api.go 219-462

\* MountAPI: the guard stored in g; a nil guard is replaced by the default.
MountAPI(guard) == IF guard = "nil" THEN "defaultGuard" ELSE guard

\* The (method, path shape) pairs of the CRUD routes MountAPI registers.
CrudRoutes ==
    {<<"POST", "kind">>, <<"GET", "kind">>, <<"GET", "resource">>,
     <<"PUT", "resource">>, <<"DELETE", "kind">>, <<"DELETE", "resource">>}

\* MountAPI's route table: the handler registered for a method on a path
\* shape ("kind": /{kind}, "resource": /{kind}/{id}).
Route(method, shape) ==
    CASE method = "POST" /\ shape = "kind" -> "create"
      [] method = "GET" /\ shape = "kind" -> "getAll"
      [] method = "GET" /\ shape = "resource" -> "get"
      [] method = "PUT" /\ shape = "resource" -> "update"
      [] method = "DELETE" /\ shape = "kind" -> "deleteAll"
      [] method = "DELETE" /\ shape = "resource" -> "del"
      [] method = "OPTIONS" /\ shape = "kind" -> "optionsKind"
      [] method = "OPTIONS" /\ shape = "resource" -> "optionsResource"
      [] OTHER -> "none"

\* What handling a request did: the response, the calls made, and the
\* storage call's return (with the backing map after it).
Handled(o, cs, r) == [out |-> o, calls |-> cs, sto |-> r]

\* Variant: a failed Authenticate is followed by Authorize all the same.
authenticateAndAuthorize_PastAuthn(action, kind, params, c) ==
    LET an == Authenticate(g, params, c)
        e1 == Ev("Authenticate", "", "", NoId, an.client, params, an.ok)
        az == Authorize(g, an.client, action, kind, c)
        e2 == Ev("Authorize", action, kind, NoId, an.client, "", az.ok)
    IN  IF ~az.ok
        THEN [ok |-> FALSE, calls |-> <<e1, e2>>,
              out |-> Response(403, az.errorMessage, NoId, NoResult)]
        ELSE [ok |-> TRUE, calls |-> <<e1, e2>>, out |-> NoResponse]

\* Variant: a failed Authorize does not end the handling.
authenticateAndAuthorize_PastAuthz(action, kind, params, c) ==
    LET an == Authenticate(g, params, c)
        e1 == Ev("Authenticate", "", "", NoId, an.client, params, an.ok)
        az == Authorize(g, an.client, action, kind, c)
        e2 == Ev("Authorize", action, kind, NoId, an.client, "", az.ok)
    IN  IF ~an.ok
        THEN [ok |-> FALSE, calls |-> <<e1>>,
              out |-> Response(401, an.errorMessage, NoId, NoResult)]
        ELSE [ok |-> TRUE, calls |-> <<e1, e2>>, out |-> NoResponse]

\* Variant: Authorize is handed the empty client, not Authenticate's.
authenticateAndAuthorize_NoClient(action, kind, params, c) ==
    LET an == Authenticate(g, params, c)
        e1 == Ev("Authenticate", "", "", NoId, an.client, params, an.ok)
    IN  IF ~an.ok
        THEN [ok |-> FALSE, calls |-> <<e1>>,
              out |-> Response(401, an.errorMessage, NoId, NoResult)]
        ELSE LET az == Authorize(g, "", action, kind, c)
                 e2 == Ev("Authorize", action, kind, NoId, "", "", az.ok)
             IN  IF ~az.ok
                 THEN [ok |-> FALSE, calls |-> <<e1, e2>>,
                       out |-> Response(403, az.errorMessage, NoId, NoResult)]
                 ELSE [ok |-> TRUE, calls |-> <<e1, e2>>, out |-> NoResponse]

authenticateAndAuthorize(action, kind, params, c) ==
    LET an == Authenticate(g, params, c)
        e1 == Ev("Authenticate", "", "", NoId, an.client, params, an.ok)
    IN  IF ~an.ok
        THEN [ok |-> FALSE, calls |-> <<e1>>,
              out |-> Response(401, an.errorMessage, NoId, NoResult)]
        ELSE LET az == Authorize(g, an.client, action, kind, c)
                 e2 == Ev("Authorize", action, kind, NoId, an.client, "", az.ok)
             IN  IF ~az.ok
                 THEN [ok |-> FALSE, calls |-> <<e1, e2>>,
                       out |-> Response(403, az.errorMessage, NoId, NoResult)]
                 ELSE [ok |-> TRUE, calls |-> <<e1, e2>>, out |-> NoResponse]

initHandling(rq, action, c) ==
    authenticateAndAuthorize(action, rq.kind, rq.params, c)

\* The storage call of a handler, as it appears in calls.
StorageEv(op, rq) == Ev("Storage", op, rq.kind, rq.id, "", "", TRUE)

\* Variant: the dispatcher answers a storage failure it does not know with
\* 500 and its own message.
WriteStorageResponse_Known(r, id, result) ==
    IF r.resp.statusCode \in {200, 201, 404}
    THEN Response(r.resp.statusCode, r.resp.err, id, Encode(result))
    ELSE Response(500, "storage failure", id, Encode(result))

\* resp.WriteHeader(stoResp.StatusCode);
\* enc.Encode(apiResponse{stoResp.ErrorMessage, id, result}).
WriteStorageResponse(r, id, result) ==
    Response(r.resp.statusCode, r.resp.err, id, Encode(result))

\* Variant: the decode error is not looked at.
create_NoDecodeCheck(rq, c, newid) ==
    LET a == authenticateAndAuthorize(ActionCreate, rq.kind, rq.params, c)
        d == DecodeMap(rq.body)
        r == Sr_Create(data, rq.kind, d.val, newid)
    IN  IF ~a.ok THEN Handled(a.out, a.calls, NotCalled(data))
        ELSE Handled(WriteStorageResponse(r, r.id, NoResult),
                     Append(a.calls, StorageEv("Create", rq)), r)

create(rq, c, newid) ==
    LET a == initHandling(rq, ActionCreate, c)
        d == DecodeMap(rq.body)
        r == Sr_Create(data, rq.kind, d.val, newid)
    IN  IF ~a.ok THEN Handled(a.out, a.calls, NotCalled(data))
        ELSE IF d.err
        THEN Handled(Response(400, "malformed json", NoId, NoResult), a.calls,
                     NotCalled(data))
        ELSE Handled(WriteStorageResponse(r, r.id, NoResult),
                     Append(a.calls, StorageEv("Create", rq)), r)

getAll(rq, c) ==
    LET a == initHandling(rq, ActionGetAll, c)
        r == Sr_GetAll(data, rq.kind)
    IN  IF ~a.ok THEN Handled(a.out, a.calls, NotCalled(data))
        ELSE Handled(WriteStorageResponse(r, NoId, r.result),
                     Append(a.calls, StorageEv("GetAll", rq)), r)

get(rq, c) ==
    LET a == initHandling(rq, ActionGet, c)
        r == Sr_Get(data, rq.kind, rq.id)
    IN  IF ~a.ok THEN Handled(a.out, a.calls, NotCalled(data))
        ELSE Handled(WriteStorageResponse(r, NoId, r.result),
                     Append(a.calls, StorageEv("Get", rq)), r)

update(rq, c) ==
    LET a == initHandling(rq, ActionUpdate, c)
        d == DecodeMap(rq.body)
        r == Sr_Update(data, rq.kind, rq.id, d.val)
    IN  IF ~a.ok THEN Handled(a.out, a.calls, NotCalled(data))
        ELSE IF d.err
        THEN Handled(Response(400, "malformed json", NoId, NoResult), a.calls,
                     NotCalled(data))
        ELSE Handled(WriteStorageResponse(r, NoId, NoResult),
                     Append(a.calls, StorageEv("Update", rq)), r)

deleteAll(rq, c) ==
    LET a == initHandling(rq, ActionDeleteAll, c)
        r == Sr_DeleteAll(data, rq.kind)
    IN  IF ~a.ok THEN Handled(a.out, a.calls, NotCalled(data))
        ELSE Handled(WriteStorageResponse(r, NoId, NoResult),
                     Append(a.calls, StorageEv("DeleteAll", rq)), r)

\* Variant: authorized as a delete, performed as a delete-all.
del_AsDeleteAll(rq, c) ==
    LET a == authenticateAndAuthorize(ActionDelete, rq.kind, rq.params, c)
        r == Sr_DeleteAll(data, rq.kind)
    IN  IF ~a.ok THEN Handled(a.out, a.calls, NotCalled(data))
        ELSE Handled(WriteStorageResponse(r, NoId, NoResult),
                     Append(a.calls, StorageEv("DeleteAll", rq)), r)

del(rq, c) ==
    LET a == initHandling(rq, ActionDelete, c)
        r == Sr_Delete(data, rq.kind, rq.id)
    IN  IF ~a.ok THEN Handled(a.out, a.calls, NotCalled(data))
        ELSE Handled(WriteStorageResponse(r, NoId, NoResult),
                     Append(a.calls, StorageEv("Delete", rq)), r)

\* The router: the handler MountAPI registered for the request runs.
Serve(rq, c, newid) ==
    LET h == Route(rq.method, rq.shape)
    IN  CASE h = "create" -> create(rq, c, newid)
          [] h = "getAll" -> getAll(rq, c)
          [] h = "get" -> get(rq, c)
          [] h = "update" -> update(rq, c)
          [] h = "deleteAll" -> deleteAll(rq, c)
          [] h = "del" -> del(rq, c)

\* The state after a request was handled.
Respond(rq, h) ==
    /\ req' = rq
    /\ out' = h.out
    /\ calls' = h.calls
    /\ sto' = h.sto
    /\ data' = h.sto.data
    /\ UNCHANGED <<design, kinds, guardArg, g, threads, pathPrefix>>

\* One action per route of the guarded API.
POST_kind ==
    /\ design = "guarded"
    /\ \E kind \in kinds, params \in Params, body \in Bodies,
          c \in AnswersOf(g), newid \in Ids :
         LET rq == Request("POST", "kind", kind, NoId, params, body)
         IN  Respond(rq, Serve(rq, c, newid))

GET_kind ==
    /\ design = "guarded"
    /\ \E kind \in kinds, params \in Params, c \in AnswersOf(g) :
         LET rq == Request("GET", "kind", kind, NoId, params, NoBody)
         IN  Respond(rq, Serve(rq, c, NoId))

GET_resource ==
    /\ design = "guarded"
    /\ \E kind \in kinds, id \in Ids, params \in Params, c \in AnswersOf(g) :
         LET rq == Request("GET", "resource", kind, id, params, NoBody)
         IN  Respond(rq, Serve(rq, c, NoId))

PUT_resource ==
    /\ design = "guarded"
    /\ \E kind \in kinds, id \in Ids, params \in Params, body \in Bodies,
          c \in AnswersOf(g) :
         LET rq == Request("PUT", "resource", kind, id, params, body)
         IN  Respond(rq, Serve(rq, c, NoId))

DELETE_kind ==
    /\ design = "guarded"
    /\ \E kind \in kinds, params \in Params, c \in AnswersOf(g) :
         LET rq == Request("DELETE", "kind", kind, NoId, params, NoBody)
         IN  Respond(rq, Serve(rq, c, NoId))

DELETE_resource ==
    /\ design = "guarded"
    /\ \E kind \in kinds, id \in Ids, params \in Params, c \in AnswersOf(g) :
         LET rq == Request("DELETE", "resource", kind, id, params, NoBody)
         IN  Respond(rq, Serve(rq, c, NoId))

\* optionsKind, optionsResource: the values added to the Allow header, then
\* status 200.
optionsKind ==
    [Response(200, "", NoId, NoResult)
       EXCEPT !.allow = {"PUT", "GET", "DELETE", "OPTIONS"}]

optionsResource ==
    [Response(200, "", NoId, NoResult)
       EXCEPT !.allow = {"POST", "GET", "DELETE", "OPTIONS"}]

OPTIONS_kind ==
    /\ design = "guarded"
    /\ \E kind \in kinds, params \in Params :
         LET rq == Request("OPTIONS", "kind", kind, NoId, params, NoBody)
         IN  Respond(rq, Handled(optionsKind, <<>>, NotCalled(data)))

OPTIONS_resource ==
    /\ design = "guarded"
    /\ \E kind \in kinds, id \in Ids, params \in Params :
         LET rq == Request("OPTIONS", "resource", kind, id, params, NoBody)
         IN  Respond(rq, Handled(optionsResource, <<>>, NotCalled(data)))

\* The methods clients send.
HttpMethods == {"POST", "GET", "PUT", "DELETE", "OPTIONS", "PATCH"}

\* A request on one of the two path shapes whose method no route of
\* MountAPI has: no handler runs and the router answers by itself.
\* MountAPI sets no handler for this case, so the answer is the one of the
\* gorilla/mux the package is built with: 404 with releases that treat a
\* method mismatch as no match, 405 with releases that tell them apart.
NoRoute ==
    /\ design = "guarded"
    /\ \E method \in HttpMethods, shape \in {"kind", "resource"},
          kind \in kinds, id \in Ids, status \in {404, 405} :
         LET rq == Request(method, shape, kind,
                           IF shape = "kind" THEN NoId ELSE id, "", NoBody)
         IN  /\ Route(method, shape) = "none"
             /\ Respond(rq, Handled(Response(status, "", NoId, NoResult),
                                    <<>>, NotCalled(data)))

\* MountAPI called again with another guard: the package variable g is
\* overwritten.
Remount ==
    /\ design = "guarded"
    /\ \E guard \in GuardArgs :
         /\ guardArg' = guard
         /\ g' = MountAPI(guard)
         /\ req' = Request("MountAPI", "-", "", NoId, "", NoBody)
         /\ calls' = <<>>
         /\ sto' = NotCalled(data)
         /\ out' = NoResponse
    /\ UNCHANGED <<design, kinds, data, threads, pathPrefix>>

\* The application registers or drops a collection of the example storage.
AddMap ==
    /\ design \in {"example", "decoder"}
    /\ \E kind \in kinds :
         /\ data' = Ex_AddMap(data, kind)
         /\ req' = Request("AddMap", "-", kind, NoId, "", NoBody)
         /\ calls' = <<>>
         /\ sto' = NotCalled(data')
         /\ out' = NoResponse
    /\ UNCHANGED <<design, kinds, guardArg, g, threads, pathPrefix>>

DeleteMap ==
    /\ design \in {"example", "decoder"}
    /\ \E kind \in kinds :
         /\ data' = Ex_DeleteMap(data, kind)
         /\ req' = Request("DeleteMap", "-", kind, NoId, "", NoBody)
         /\ calls' = <<>>
         /\ sto' = NotCalled(data')
         /\ out' = NoResponse
    /\ UNCHANGED <<design, kinds, guardArg, g, threads, pathPrefix>>

\* ---------------------------------------------- example storage, revision 2
\* src/example/example_storage.go 183-380: Create/Update take the request
\* body's *json.Decoder and decode it themselves.

collectionNotFound == StatusResponse(404, "collection not found")
resourceNotFound == StatusResponse(404, "resource not found")

\* errors.New("malformed JSON: " + err.Error()) with http.StatusBadRequest.
malformedJSON == StatusResponse(400, "malformed JSON")

collectionExists(ms, collection) == collection \in DOMAIN ms

resourceExists(ms, collection, id) ==
    IF ~collectionExists(ms, collection)
    THEN [ok |-> FALSE, resource |-> NoResult]
    ELSE IF id \in DOMAIN ms[collection]
         THEN [ok |-> TRUE,
               resource |-> Result("resource", SetToBag({ms[collection][id]}))]
         ELSE [ok |-> FALSE, resource |-> NoResult]

Ex2_Create(ms, collection, body, newid) ==
    LET d == DecodeMap(body)
    IN  IF ~collectionExists(ms, collection)
        THEN StoRet(NoId, NoResult, collectionNotFound, ms)
        ELSE IF d.err
        THEN StoRet(NoId, NoResult, malformedJSON, ms)
        ELSE StoRet(newid, NoResult, newMSSR(201, ""),
                    [ms EXCEPT ![collection] = MapSet(@, newid, d.val)])

Ex2_Get(ms, collection, id) ==
    LET e == resourceExists(ms, collection, id)
    IN  IF ~e.ok
        THEN StoRet(NoId, NoResult, resourceNotFound, ms)
        ELSE StoRet(NoId, e.resource, newMSSR(200, ""), ms)

Ex2_GetAll(ms, collection) ==
    IF ~collectionExists(ms, collection)
    THEN StoRet(NoId, Result("nilslice", EmptyBag), collectionNotFound, ms)
    ELSE StoRet(NoId,
                IF DOMAIN ms[collection] = {}
                THEN Result("nilslice", EmptyBag)
                ELSE Result("list", ValuesBag(ms[collection])),
                newMSSR(200, ""), ms)

\* Variant: the decoded value is stored before the decode error is looked at.
Ex2_Update_StoreFirst(ms, collection, id, body) ==
    LET d == DecodeMap(body)
        stored == [ms EXCEPT ![collection] = MapSet(@, id, d.val)]
    IN  IF ~resourceExists(ms, collection, id).ok
        THEN StoRet(NoId, NoResult, resourceNotFound, ms)
        ELSE IF d.err
        THEN StoRet(NoId, NoResult, malformedJSON, stored)
        ELSE StoRet(NoId, NoResult, newMSSR(200, ""), stored)

Ex2_Update(ms, collection, id, body) ==
    LET d == DecodeMap(body)
    IN  IF ~resourceExists(ms, collection, id).ok
        THEN StoRet(NoId, NoResult, resourceNotFound, ms)
        ELSE IF d.err
        THEN StoRet(NoId, NoResult, malformedJSON, ms)
        ELSE StoRet(NoId, NoResult, newMSSR(200, ""),
                    [ms EXCEPT ![collection] = MapSet(@, id, d.val)])

Ex2_Delete(ms, collection, id) ==
    IF ~resourceExists(ms, collection, id).ok
    THEN StoRet(NoId, NoResult, resourceNotFound, ms)
    ELSE StoRet(NoId, NoResult, newMSSR(200, ""),
                [ms EXCEPT ![collection] = MapDelete(@, id)])

Ex2_DeleteAll(ms, collection) ==
    IF ~collectionExists(ms, collection)
    THEN StoRet(NoId, NoResult, collectionNotFound, ms)
    ELSE StoRet(NoId, NoResult, newMSSR(200, ""),
                [ms EXCEPT ![collection] = EmptyMap])

\* A storage method called on the storage directly; no dispatcher of this
\* revision is among the sources, so no response is modelled.
Returned(rq, r) ==
    /\ req' = rq
    /\ out' = NoResponse
    /\ calls' = <<StorageEv(rq.method, rq)>>
    /\ sto' = r
    /\ data' = r.data
    /\ UNCHANGED <<design, kinds, guardArg, g, threads, pathPrefix>>

\* One action per method of the example MapStorage, called on the storage
\* directly: in design "example" the revision that receives the resource,
\* in design "decoder" the revision that decodes the body.
MapStorage_Create ==
    /\ design \in {"example", "decoder"}
    /\ \E kind \in kinds, body \in Bodies, newid \in Ids :
         /\ (design = "example") => (body.kind = "object")
         /\ Returned(Request("Create", "storage", kind, NoId, "", body),
                     IF design = "example"
                     THEN Ex1_Create(data, kind, DecodeMap(body).val, newid)
                     ELSE Ex2_Create(data, kind, body, newid))

MapStorage_Get ==
    /\ design \in {"example", "decoder"}
    /\ \E kind \in kinds, id \in Ids :
         Returned(Request("Get", "storage", kind, id, "", NoBody),
                  IF design = "example"
                  THEN Ex1_Get(data, kind, id)
                  ELSE Ex2_Get(data, kind, id))

MapStorage_GetAll ==
    /\ design \in {"example", "decoder"}
    /\ \E kind \in kinds :
         Returned(Request("GetAll", "storage", kind, NoId, "", NoBody),
                  IF design = "example"
                  THEN Ex1_GetAll(data, kind)
                  ELSE Ex2_GetAll(data, kind))

MapStorage_Update ==
    /\ design \in {"example", "decoder"}
    /\ \E kind \in kinds, id \in Ids, body \in Bodies :
         /\ (design = "example") => (body.kind = "object")
         /\ Returned(Request("Update", "storage", kind, id, "", body),
                     IF design = "example"
                     THEN Ex1_Update(data, kind, id, DecodeMap(body).val)
                     ELSE Ex2_Update(data, kind, id, body))

MapStorage_Delete ==
    /\ design \in {"example", "decoder"}
    /\ \E kind \in kinds, id \in Ids :
         Returned(Request("Delete", "storage", kind, id, "", NoBody),
                  IF design = "example"
                  THEN Ex1_Delete(data, kind, id)
                  ELSE Ex2_Delete(data, kind, id))

MapStorage_DeleteAll ==
    /\ design \in {"example", "decoder"}
    /\ \E kind \in kinds :
         Returned(Request("DeleteAll", "storage", kind, NoId, "", NoBody),
                  IF design = "example"
                  THEN Ex1_DeleteAll(data, kind)
                  ELSE Ex2_DeleteAll(data, kind))

\* ------------------------------------------------ StorageError dispatcher
\* src/api.go 464-739

\* The switch on the StorageError a handler runs after its storage call:
\* the cases it lists, else the success response (status 200 is implied
\* where the handler writes no header).
StorageFailure(r, cases) ==
    CASE r.resp.err = KindNotFound /\ KindNotFound \in cases ->
             Response(404, "kind not found", NoId, NoResult)
      [] r.resp.err = ResourceNotFound /\ ResourceNotFound \in cases ->
             Response(404, "resource not found", NoId, NoResult)
      [] r.resp.err = InternalError /\ InternalError \in cases ->
             Response(500, "storage failure", NoId, NoResult)
      [] OTHER -> NoResponse

Switch(r, cases, success) ==
    IF StorageFailure(r, cases) = NoResponse
    THEN success
    ELSE StorageFailure(r, cases)

\* What each handler writes after its storage call returned r: the switch
\* with the cases the handler lists, then the success response.
E_switch(op, r) ==
    CASE op = "Create" ->
             Switch(r, {KindNotFound, InternalError},
                    Response(201, "", r.id, NoResult))
      [] op = "Get" ->
             Switch(r, {KindNotFound, ResourceNotFound, InternalError},
                    Response(200, "", NoId, Encode(r.result)))
      [] op = "GetAll" ->
             Switch(r, {KindNotFound, InternalError},
                    Response(200, "", NoId, Encode(r.result)))
      [] op = "Update" ->
             Switch(r, {KindNotFound, ResourceNotFound, InternalError},
                    Response(200, "", NoId, NoResult))
      [] op = "Delete" ->
             Switch(r, {KindNotFound, ResourceNotFound, InternalError},
                    Response(200, "", NoId, NoResult))
      [] op = "DeleteAll" ->
             Switch(r, {KindNotFound, InternalError},
                    Response(200, "", NoId, NoResult))

E_create(rq, now) ==
    LET d == DecodeMap(rq.body)
        r == Ms_Create(data, rq.kind, d.val, now)
    IN  IF d.err
        THEN Handled(Response(400, "malformed json", NoId, NoResult), <<>>,
                     NotCalled(data))
        ELSE Handled(E_switch("Create", r), <<StorageEv("Create", rq)>>, r)

E_get(rq) ==
    LET r == Ms_Get(data, rq.kind, rq.id)
    IN  Handled(E_switch("Get", r), <<StorageEv("Get", rq)>>, r)

E_getAll(rq) ==
    LET r == Ms_GetAll(data, rq.kind)
    IN  Handled(E_switch("GetAll", r), <<StorageEv("GetAll", rq)>>, r)

E_update(rq) ==
    LET d == DecodeMap(rq.body)
        r == Ms_Update(data, rq.kind, rq.id, d.val)
    IN  IF d.err
        THEN Handled(Response(400, "malformed json", NoId, NoResult), <<>>,
                     NotCalled(data))
        ELSE Handled(E_switch("Update", r), <<StorageEv("Update", rq)>>, r)

E_del(rq) ==
    LET r == Ms_Delete(data, rq.kind, rq.id)
    IN  Handled(E_switch("Delete", r), <<StorageEv("Delete", rq)>>, r)

E_deleteAll(rq) ==
    LET r == Ms_DeleteAll(data, rq.kind)
    IN  Handled(E_switch("DeleteAll", r), <<StorageEv("DeleteAll", rq)>>, r)

\* One action per CRUD route NewAPI registers.
NewAPI_POST_kind ==
    /\ design = "errcode"
    /\ \E kind \in kinds, body \in Bodies, now \in Ids :
         LET rq == Request("POST", "kind", kind, NoId, "", body)
         IN  Respond(rq, E_create(rq, now))

NewAPI_GET_kind ==
    /\ design = "errcode"
    /\ \E kind \in kinds :
         LET rq == Request("GET", "kind", kind, NoId, "", NoBody)
         IN  Respond(rq, E_getAll(rq))

NewAPI_GET_resource ==
    /\ design = "errcode"
    /\ \E kind \in kinds, id \in Ids :
         LET rq == Request("GET", "resource", kind, id, "", NoBody)
         IN  Respond(rq, E_get(rq))

NewAPI_PUT_resource ==
    /\ design = "errcode"
    /\ \E kind \in kinds, id \in Ids, body \in Bodies :
         LET rq == Request("PUT", "resource", kind, id, "", body)
         IN  Respond(rq, E_update(rq))

NewAPI_DELETE_kind ==
    /\ design = "errcode"
    /\ \E kind \in kinds :
         LET rq == Request("DELETE", "kind", kind, NoId, "", NoBody)
         IN  Respond(rq, E_deleteAll(rq))

NewAPI_DELETE_resource ==
    /\ design = "errcode"
    /\ \E kind \in kinds, id \in Ids :
         LET rq == Request("DELETE", "resource", kind, id, "", NoBody)
         IN  Respond(rq, E_del(rq))

\* The dispatcher over any implementation of the Storage interface: the
\* storage method may return every StorageError; the handler answers from
\* what was returned.
StorageErrors ==
    {None, InternalError, ResourceExists, ResourceNotFound, KindExists,
     KindNotFound}
StorageMethods ==
    {"Create", "Get", "GetAll", "Update", "Delete", "DeleteAll"}

NewAPI_AnyStorage ==
    /\ design = "errcode/any"
    /\ \E op \in StorageMethods, kind \in kinds, id \in Ids,
          err \in StorageErrors :
         LET rq == Request(op, "-", kind,
                           IF op \in {"Get", "Update", "Delete"}
                           THEN id ELSE NoId, "", NoBody)
             r  == StoRet(IF op = "Create" /\ err = None THEN id ELSE NoId,
                          NoResult, StorageError(err), data)
         IN  Respond(rq, Handled(E_switch(op, r), <<StorageEv(op, rq)>>, r))

\* ------------------------------------------- calls on the ResponseWriter
\* What a handler does to its http.ResponseWriter, in program order:
\* resp.WriteHeader(status) and enc.Encode(envelope).

WriteHeader(status) ==
    [call |-> "WriteHeader", status |-> status, envelope |-> NoResponse]
EncodeCall(o) ==
    [call |-> "Encode", status |-> 0, envelope |-> o]

\* net/http: the status line is the one of the first WriteHeader, or 200
\* when the body is written first; the body is what was encoded.
Seen(w) ==
    IF w = <<>> THEN NoResponse
    ELSE LET encs == SelectSeq(w, LAMBDA e : e.call = "Encode")
             o == IF encs = <<>> THEN NoResponse ELSE encs[1].envelope
         IN  [o EXCEPT !.status = IF w[1].call = "WriteHeader"
                                  THEN w[1].status ELSE 200]

\* src/api.go 272-299: on a denial, WriteHeader(401 or 403) and the
\* envelope with the guard's message; nothing when the request may pass.
authenticateAndAuthorize_writes(action, kind, params, c) ==
    LET a == authenticateAndAuthorize(action, kind, params, c)
    IN  IF a.ok THEN <<>>
        ELSE <<WriteHeader(a.out.status), EncodeCall(a.out)>>

WriteStorageResponse_writes(r, id, result) ==
    <<WriteHeader(r.resp.statusCode),
      EncodeCall(WriteStorageResponse(r, id, result))>>

malformed_writes ==
    <<WriteHeader(400),
      EncodeCall(Response(400, "malformed json", NoId, NoResult))>>

\* Variant: a handler that goes on after the denial was written.
Guarded_writes_NoReturn(rq, c, newid) ==
    LET r == Sr_Get(data, rq.kind, rq.id)
    IN  authenticateAndAuthorize_writes(ActionGet, rq.kind, rq.params, c)
        \o WriteStorageResponse_writes(r, NoId, r.result)

\* The six handlers of the guarded API: initHandling, then (create,
\* update) the decoded body, then the storage call and its response.
Guarded_writes(rq, c, newid) ==
    LET h  == Route(rq.method, rq.shape)
        action ==
            CASE h = "create" -> ActionCreate
              [] h = "getAll" -> ActionGetAll
              [] h = "get" -> ActionGet
              [] h = "update" -> ActionUpdate
              [] h = "deleteAll" -> ActionDeleteAll
              [] h = "del" -> ActionDelete
        a  == initHandling(rq, action, c)
        w  == authenticateAndAuthorize_writes(action, rq.kind, rq.params, c)
        d  == DecodeMap(rq.body)
    IN  IF ~a.ok THEN w
        ELSE IF h \in {"create", "update"} /\ d.err
        THEN w \o malformed_writes
        ELSE CASE h = "create" ->
                    LET r == Sr_Create(data, rq.kind, d.val, newid)
                    IN  w \o WriteStorageResponse_writes(r, r.id, NoResult)
               [] h = "getAll" ->
                    LET r == Sr_GetAll(data, rq.kind)
                    IN  w \o WriteStorageResponse_writes(r, NoId, r.result)
               [] h = "get" ->
                    LET r == Sr_Get(data, rq.kind, rq.id)
                    IN  w \o WriteStorageResponse_writes(r, NoId, r.result)
               [] h = "update" ->
                    LET r == Sr_Update(data, rq.kind, rq.id, d.val)
                    IN  w \o WriteStorageResponse_writes(r, NoId, NoResult)
               [] h = "deleteAll" ->
                    LET r == Sr_DeleteAll(data, rq.kind)
                    IN  w \o WriteStorageResponse_writes(r, NoId, NoResult)
               [] h = "del" ->
                    LET r == Sr_Delete(data, rq.kind, rq.id)
                    IN  w \o WriteStorageResponse_writes(r, NoId, NoResult)

\* The StorageError dispatcher: a listed failure and the success of create
\* write the header and then the envelope; the other successes write the
\* envelope alone ("200 OK is implied").
E_switch_writes(op, r) ==
    IF StorageFailure(r, IF op \in {"Get", "Update", "Delete"}
                         THEN {KindNotFound, ResourceNotFound, InternalError}
                         ELSE {KindNotFound, InternalError}) # NoResponse
       \/ op = "Create"
    THEN <<WriteHeader(E_switch(op, r).status), EncodeCall(E_switch(op, r))>>
    ELSE <<EncodeCall(E_switch(op, r))>>

E_writes(rq, now) ==
    LET h == Route(rq.method, rq.shape)
        d == DecodeMap(rq.body)
    IN  IF h \in {"create", "update"} /\ d.err
        THEN malformed_writes
        ELSE CASE h = "create" ->
                    E_switch_writes("Create",
                                    Ms_Create(data, rq.kind, d.val, now))
               [] h = "getAll" ->
                    E_switch_writes("GetAll", Ms_GetAll(data, rq.kind))
               [] h = "get" ->
                    E_switch_writes("Get", Ms_Get(data, rq.kind, rq.id))
               [] h = "update" ->
                    E_switch_writes("Update",
                                    Ms_Update(data, rq.kind, rq.id, d.val))
               [] h = "deleteAll" ->
                    E_switch_writes("DeleteAll", Ms_DeleteAll(data, rq.kind))
               [] h = "del" ->
                    E_switch_writes("Delete", Ms_Delete(data, rq.kind, rq.id))

\* The calls on the ResponseWriter while the request is handled, and the
\* response the client is sent.
Writes(rq, c, newid) ==
    IF design = "guarded"
    THEN Guarded_writes(rq, c, newid)
    ELSE E_writes(rq, newid)

Answer(rq, c, newid) ==
    IF design = "guarded"
    THEN Serve(rq, c, newid).out
    ELSE CASE Route(rq.method, rq.shape) = "create" -> E_create(rq, newid).out
           [] Route(rq.method, rq.shape) = "getAll" -> E_getAll(rq).out
           [] Route(rq.method, rq.shape) = "get" -> E_get(rq).out
           [] Route(rq.method, rq.shape) = "update" -> E_update(rq).out
           [] Route(rq.method, rq.shape) = "deleteAll" -> E_deleteAll(rq).out
           [] Route(rq.method, rq.shape) = "del" -> E_del(rq).out

\* The CRUD requests clients send.
CrudRequests ==
    UNION {{Request(m[1], m[2], kind, id, params, body) :
              id \in IF m[2] = "resource" THEN Ids ELSE {NoId},
              body \in IF m[1] \in {"POST", "PUT"} THEN Bodies ELSE {NoBody}} :
           m \in CrudRoutes, kind \in kinds,
           params \in IF design = "guarded" THEN Params ELSE {""}}

\* The application calls AddMap / DeleteMap of the library's MapStorage.
MapStorage_AddMap ==
    /\ design \in {"guarded", "errcode"}
    /\ \E kind \in kinds :
         LET rq == Request("AddMap", "storage", kind, NoId, "", NoBody)
         IN  Returned(rq, Ms_AddMap(data, kind))

MapStorage_DeleteMap ==
    /\ design \in {"guarded", "errcode"}
    /\ \E kind \in kinds :
         LET rq == Request("DeleteMap", "storage", kind, NoId, "", NoBody)
         IN  Returned(rq, Ms_DeleteMap(data, kind))

\* --------------------------------------------------- caller-supplied ids
\* src/unnamed/part_003 (NewAPI with the handlers api.Create, api.Get,
\* api.Update, api.Delete) over the MapStorage of src/unnamed/part_000,
\* whose Create takes the id: design "callerid".  Ids are slugs, written
\* here as numbers: 1 is "gorillaz", 2 is "blur".

\* The strings clients send as "id".
Names == {"gorillaz", "Gorillaz", "blur"}

\* slugify.S: lower case, so that different names share a slug.
Slugify(name) ==
    CASE name \in {"gorillaz", "Gorillaz"} -> 1
      [] name = "blur" -> 2

Slugs == {Slugify(n) : n \in Names}

\* A Go interface{}: nil, a string or float64, a decoded JSON object (a
\* map), or another decoded JSON value.
Iface(v) == [t |-> v.t, s |-> v.s, hi |-> v.hi, lo |-> v.lo, obj |-> {}]
IfaceMap(m) == [t |-> "map", s |-> "", hi |-> 0, lo |-> 0, obj |-> m]
IfaceNil == [t |-> "nil", s |-> "", hi |-> 0, lo |-> 0, obj |-> {}]
IfaceOther == [t |-> "other", s |-> "", hi |-> 0, lo |-> 0, obj |-> {}]

\* The values of the "resource" field.
ResourceValues == {JString("Gorillaz"), JNumber(0, 3)}

\* Top-level objects of POST and PUT bodies: with a string "id", with no
\* "id", with an "id" that is no string; with or without "resource".
Payloads ==
    LET ids == {{<<"id", JString(n)>>} : n \in Names}
                 \cup {{}, {<<"id", JNumber(0, 1)>>}}
        resources == {{<<"resource", v>>} : v \in ResourceValues} \cup {{}}
    IN  {i \cup r : i \in ids, r \in resources}

IdBodies == {Malformed, NonObject} \cup {ObjectBody(o) : o \in Payloads}

\* payload[key] with the ok of the two-value form; the zero value (nil)
\* when the key is absent.
HasKey(m, key) == \E p \in m : p[1] = key
Lookup(m, key) ==
    IF HasKey(m, key)
    THEN Iface((CHOOSE p \in m : p[1] = key)[2])
    ELSE IfaceNil

\* json.Decoder.Decode into an interface{}: an error for a syntax error
\* only.
DecodeAny(body) ==
    CASE body.kind = "object" ->
             [err |-> FALSE, val |-> IfaceMap(DecodeMap(body).val)]
      [] body.kind = "nonobject" -> [err |-> FALSE, val |-> IfaceOther]
      [] OTHER -> [err |-> TRUE, val |-> IfaceNil]

EncodeIface(v) ==
    [t |-> IF v.t = "float64" THEN "number" ELSE v.t,
     s |-> v.s, hi |-> v.hi, lo |-> v.lo, obj |-> EncodeMap(v.obj)]

\* The "resource" field of apiResponse (omitempty: a nil interface is
\* left out).
EncodeResource(v) ==
    IF v.t = "nil"
    THEN NoResult
    ELSE Result("resource", SetToBag({EncodeIface(v)}))

\* MapStorage of src/unnamed/part_000.
Ci_AddKind(ms, kind) ==
    IF kind \in DOMAIN ms
    THEN StoRet(NoId, NoResult, StorageError(KindExists), ms)
    ELSE StoRet(NoId, NoResult, StorageError(None), MapSet(ms, kind, EmptyMap))

Ci_DeleteKind(ms, kind) ==
    IF kind \notin DOMAIN ms
    THEN StoRet(NoId, NoResult, StorageError(KindNotFound), ms)
    ELSE StoRet(NoId, NoResult, StorageError(None), MapDelete(ms, kind))

\* Variant: Create stores under an id that is in use.
Ci_Create_Overwrite(ms, kind, id, resource) ==
    IF kind \notin DOMAIN ms
    THEN StoRet(NoId, NoResult, StorageError(KindNotFound), ms)
    ELSE StoRet(NoId, NoResult, StorageError(None),
                [ms EXCEPT ![kind] = MapSet(@, id, resource)])

Ci_Create(ms, kind, id, resource) ==
    IF kind \notin DOMAIN ms
    THEN StoRet(NoId, NoResult, StorageError(KindNotFound), ms)
    ELSE IF id \in DOMAIN ms[kind]
    THEN StoRet(NoId, NoResult, StorageError(ResourceExists), ms)
    ELSE StoRet(NoId, NoResult, StorageError(None),
                [ms EXCEPT ![kind] = MapSet(@, id, resource)])

Ci_Get(ms, kind, id) ==
    IF kind \notin DOMAIN ms
    THEN StoRet(NoId, NoResult, StorageError(KindNotFound), ms)
    ELSE IF id \notin DOMAIN ms[kind]
    THEN StoRet(NoId, NoResult, StorageError(ResourceNotFound), ms)
    ELSE StoRet(NoId, EncodeResource(ms[kind][id]), StorageError(None), ms)

Ci_Update(ms, kind, id, resource) ==
    IF kind \notin DOMAIN ms
    THEN StoRet(NoId, NoResult, StorageError(KindNotFound), ms)
    ELSE IF id \notin DOMAIN ms[kind]
    THEN StoRet(NoId, NoResult, StorageError(ResourceNotFound), ms)
    ELSE StoRet(NoId, NoResult, StorageError(None),
                [ms EXCEPT ![kind] = MapSet(@, id, resource)])

Ci_Delete(ms, kind, id) ==
    IF kind \notin DOMAIN ms
    THEN StoRet(NoId, NoResult, StorageError(KindNotFound), ms)
    ELSE IF id \notin DOMAIN ms[kind]
    THEN StoRet(NoId, NoResult, StorageError(ResourceNotFound), ms)
    ELSE StoRet(NoId, NoResult, StorageError(None),
                [ms EXCEPT ![kind] = MapDelete(@, id)])

\* The switch on stoErr of the handlers, else the success response.
ApiSwitch(r, success) ==
    CASE r.resp.err = KindNotFound ->
             Response(404, "kind not found", NoId, NoResult)
      [] r.resp.err = ResourceNotFound ->
             Response(404, "resource not found", NoId, NoResult)
      [] r.resp.err = ResourceExists ->
             Response(409, "resource already exists", NoId, NoResult)
      [] OTHER -> success

\* api.Create.  resourceName.(string) panics when "id" is no string: the
\* handler ends there, nothing is written, storage is not called.
API_Create(rq) ==
    LET d == DecodeMap(rq.body)
        resourceName == Lookup(d.val, "id")
        id == Slugify(resourceName.s)
        r == Ci_Create(data, rq.kind, id, Lookup(d.val, "resource"))
    IN  IF d.err
        THEN Handled(Response(400, "malformed json", NoId, NoResult), <<>>,
                     NotCalled(data))
        ELSE IF ~HasKey(d.val, "id")
        THEN Handled(Response(400, "no id field given", NoId, NoResult),
                     <<>>, NotCalled(data))
        ELSE IF resourceName.t # "string"
        THEN Handled(NoResponse, <<>>, NotCalled(data))
        ELSE Handled(ApiSwitch(r, Response(201, "", id, NoResult)),
                     <<Ev("Storage", "Create", rq.kind, id, "", "", TRUE)>>,
                     r)

API_Get(rq) ==
    LET r == Ci_Get(data, rq.kind, rq.id)
    IN  Handled(ApiSwitch(r, Response(200, "", NoId, r.result)),
                <<StorageEv("Get", rq)>>, r)

\* api.Update: the id is the one of the path; the success response carries
\* it and an empty string as "resource".
API_Update(rq) ==
    LET d == DecodeAny(rq.body)
        r == Ci_Update(data, rq.kind, rq.id, d.val)
    IN  IF d.err
        THEN Handled(Response(400, "malformed json", NoId, NoResult), <<>>,
                     NotCalled(data))
        ELSE Handled(ApiSwitch(r, Response(200, "", rq.id,
                                           EncodeResource(Iface(JString(""))))),
                     <<StorageEv("Update", rq)>>, r)

API_Delete(rq) ==
    LET r == Ci_Delete(data, rq.kind, rq.id)
    IN  Handled(ApiSwitch(r, Response(200, "", NoId, NoResult)),
                <<StorageEv("Delete", rq)>>, r)

\* The application routes POST /{kind} to api.Create and GET, PUT, DELETE
\* /{kind}/{id} to api.Get, api.Update, api.Delete.
Handle_Create ==
    /\ design = "callerid"
    /\ \E kind \in kinds, body \in IdBodies :
         LET rq == Request("POST", "kind", kind, NoId, "", body)
         IN  Respond(rq, API_Create(rq))

Handle_Get ==
    /\ design = "callerid"
    /\ \E kind \in kinds, id \in Slugs :
         LET rq == Request("GET", "resource", kind, id, "", NoBody)
         IN  Respond(rq, API_Get(rq))

Handle_Update ==
    /\ design = "callerid"
    /\ \E kind \in kinds, id \in Slugs, body \in IdBodies :
         LET rq == Request("PUT", "resource", kind, id, "", body)
         IN  Respond(rq, API_Update(rq))

Handle_Delete ==
    /\ design = "callerid"
    /\ \E kind \in kinds, id \in Slugs :
         LET rq == Request("DELETE", "resource", kind, id, "", NoBody)
         IN  Respond(rq, API_Delete(rq))

MapStorage_AddKind ==
    /\ design = "callerid"
    /\ \E kind \in kinds :
         LET rq == Request("AddKind", "storage", kind, NoId, "", NoBody)
         IN  Returned(rq, Ci_AddKind(data, kind))

MapStorage_DeleteKind ==
    /\ design = "callerid"
    /\ \E kind \in kinds :
         LET rq == Request("DeleteKind", "storage", kind, NoId, "", NoBody)
         IN  Returned(rq, Ci_DeleteKind(data, kind))

\* ------------------------------------------------------- NewAPI's prefix
\* src/api.go 494-511: design "prefix".  A string is the sequence of its
\* characters.

PrefixChars == {"/", "a", "v"}

StringsOfLength(n) == [1..n -> PrefixChars]

PrefixArgs == UNION {StringsOfLength(n) : n \in 0..MaxPrefixLen}

\* if len(pathPrefix) < 2 || pathPrefix[0] != '/' { pathPrefix = "/api" }
ValidatePrefix(p) ==
    IF Len(p) < 2 \/ p[1] # "/" THEN <<"/", "a", "p", "i">> ELSE p

\* for pathPrefix[len(pathPrefix)-1] == '/' { pathPrefix = pathPrefix[:len-1] }
\* Indexing the empty string is a run-time panic (index out of range).
RECURSIVE StripTrailingSlashes(_)
StripTrailingSlashes(p) ==
    IF p = <<>>
    THEN [at |-> "panic", val |-> p]
    ELSE IF p[Len(p)] = "/"
    THEN StripTrailingSlashes(SubSeq(p, 1, Len(p) - 1))
    ELSE [at |-> "mounted", val |-> p]

\* NewAPI(pathPrefix, sto) up to PathPrefix(pathPrefix).Subrouter().
NewAPI ==
    /\ design = "prefix"
    /\ pathPrefix.at = "called"
    /\ pathPrefix' =
         [arg |-> pathPrefix.arg,
          at |-> StripTrailingSlashes(ValidatePrefix(pathPrefix.arg)).at,
          val |-> StripTrailingSlashes(ValidatePrefix(pathPrefix.arg)).val]
    /\ UNCHANGED <<design, kinds, guardArg, g, data, req, calls, sto, out,
                   threads>>

\* ------------------------------------------------------------ goroutines
\* The locking of the MapStorage methods, one step per Lock/RLock and per
\* Unlock/RUnlock.  A method is the sequence of its locked sections: "R" a
\* section under RLock that reads the maps, "W" a section under Lock that
\* writes them.  What the sections read and write is left out here.
\*   "library/threads"  src/mapstorage.go: value receivers, the struct
\*                      embeds a sync.RWMutex;
\*   "example/threads"  src/example/example_storage.go 183-380: pointer
\*                      receivers, the struct embeds a *sync.RWMutex.

Methods == {"AddMap", "DeleteMap", "Create", "Get", "GetAll", "Update",
            "Delete", "DeleteAll"}

Idle == [method |-> "", todo |-> <<>>, inside |-> FALSE]

Sections(d, method) ==
    IF d = "library/threads"
    THEN CASE method \in {"AddMap", "DeleteMap", "Create", "DeleteAll"} ->
                  <<"R", "W">>
           [] method \in {"Get", "GetAll"} -> <<"R", "R">>
           [] method \in {"Update", "Delete"} -> <<"R", "R", "W">>
    ELSE CASE method \in {"AddMap", "DeleteMap"} -> <<"W">>
           [] method \in {"Create", "DeleteAll"} -> <<"R", "W">>
           [] method \in {"Get", "GetAll"} -> <<"R", "R">>
           [] method \in {"Update", "Delete"} -> <<"R", "R", "W">>

\* The mutex a goroutine's method locks.  With a value receiver the method
\* works on its own copy of the MapStorage struct, the embedded RWMutex
\* included (mutex t, copied unlocked: the original is never locked); with
\* a pointer receiver every method locks the one mutex of the storage
\* (mutex 0).  The maps are shared in both.
MutexOf(t) == IF design = "library/threads" THEN t ELSE 0

\* The goroutines inside a section of the given kind under mutex m.
Holders(m, section) ==
    {t \in Threads : /\ threads[t].inside
                     /\ MutexOf(t) = m
                     /\ Head(threads[t].todo) = section}

ThreadStep(t, th) ==
    /\ threads' = [threads EXCEPT ![t] = th]
    /\ UNCHANGED <<design, kinds, guardArg, g, data, req, calls, sto, out,
                   pathPrefix>>

\* A goroutine (a request handler) calls a storage method.
Call ==
    /\ design \in {"library/threads", "example/threads"}
    /\ \E t \in Threads, method \in Methods :
         /\ threads[t] = Idle
         /\ ThreadStep(t, [method |-> method,
                           todo |-> Sections(design, method),
                           inside |-> FALSE])

RLock ==
    \E t \in Threads :
      /\ threads[t].todo # <<>>
      /\ ~threads[t].inside
      /\ Head(threads[t].todo) = "R"
      /\ Holders(MutexOf(t), "W") = {}
      /\ ThreadStep(t, [threads[t] EXCEPT !.inside = TRUE])

Lock ==
    \E t \in Threads :
      /\ threads[t].todo # <<>>
      /\ ~threads[t].inside
      /\ Head(threads[t].todo) = "W"
      /\ Holders(MutexOf(t), "W") = {}
      /\ Holders(MutexOf(t), "R") = {}
      /\ ThreadStep(t, [threads[t] EXCEPT !.inside = TRUE])

\* Variant: the not-found path returns without its RUnlock.
AfterSection_ReturnLocked(th, found) ==
    IF found /\ Tail(th.todo) # <<>>
    THEN [th EXCEPT !.inside = FALSE, !.todo = Tail(@)]
    ELSE IF found THEN Idle ELSE [th EXCEPT !.method = ""]

\* The end of a locked section: RUnlock/Unlock, and then the method goes
\* on to its next section, or returns (the kind or the resource was not
\* found in a read section; or it was the last section).
AfterSection(th, found) ==
    IF found /\ Tail(th.todo) # <<>>
    THEN [th EXCEPT !.inside = FALSE, !.todo = Tail(@)]
    ELSE Idle

RUnlock ==
    \E t \in Threads, found \in BOOLEAN :
      /\ threads[t].method # ""
      /\ threads[t].inside
      /\ Head(threads[t].todo) = "R"
      /\ ThreadStep(t, AfterSection(threads[t], found))

Unlock ==
    \E t \in Threads :
      /\ threads[t].method # ""
      /\ threads[t].inside
      /\ Head(threads[t].todo) = "W"
      /\ ThreadStep(t, AfterSection(threads[t], TRUE))

\* ---------------------------------------------------- concurrent Creates
\* Goroutines calling Create(kind, id, resource) of the MapStorage of
\* src/unnamed/part_000 on the collection "artists": design
\* "callerid/threads".  The receiver is a value, so the RWMutex a call locks
\* is its own copy and never blocks (MutexOf); each locked section of
\* Create is one step.

\* main registers the collection before requests are served.
Main_AddKind ==
    /\ design = "callerid/threads"
    /\ data = EmptyMap
    /\ \A t \in Threads : threads[t] = Idle
    /\ data' = Ci_AddKind(data, "artists").data
    /\ UNCHANGED <<design, kinds, guardArg, g, req, calls, sto, out, threads,
                   pathPrefix>>

\* A handler calls s.Create(kind, id, resource).
Create_Call ==
    /\ design = "callerid/threads"
    /\ \E t \in Threads, id \in Slugs, v \in ResourceValues :
         /\ threads[t] = Idle
         /\ threads' = [threads EXCEPT ![t] =
                          [method |-> "Create", todo |-> <<"kind", "id", "store">>,
                           inside |-> FALSE, id |-> id,
                           resource |-> Iface(DecodeValue(v)),
                           ret |-> "running"]]
    /\ UNCHANGED <<design, kinds, guardArg, g, data, req, calls, sto, out,
                   pathPrefix>>

\* ms.RLock(); _, ok := ms.data[kind]; ms.RUnlock(); if !ok { return KindNotFound }
Create_CheckKind ==
    /\ design = "callerid/threads"
    /\ \E t \in Threads :
         /\ threads[t].todo # <<>>
         /\ Head(threads[t].todo) = "kind"
         /\ threads' = [threads EXCEPT ![t] =
                          IF "artists" \in DOMAIN data
                          THEN [@ EXCEPT !.todo = Tail(@)]
                          ELSE [@ EXCEPT !.todo = <<>>, !.ret = KindNotFound]]
    /\ UNCHANGED <<design, kinds, guardArg, g, data, req, calls, sto, out,
                   pathPrefix>>

\* ms.RLock(); _, ok = ms.data[kind][id]; ms.RUnlock(); if ok { return ResourceExists }
Create_CheckId ==
    /\ design = "callerid/threads"
    /\ \E t \in Threads :
         /\ threads[t].todo # <<>>
         /\ Head(threads[t].todo) = "id"
         /\ threads' = [threads EXCEPT ![t] =
                          IF threads[t].id \in DOMAIN data["artists"]
                          THEN [@ EXCEPT !.todo = <<>>, !.ret = ResourceExists]
                          ELSE [@ EXCEPT !.todo = Tail(@)]]
    /\ UNCHANGED <<design, kinds, guardArg, g, data, req, calls, sto, out,
                   pathPrefix>>

\* ms.Lock(); ms.data[kind][id] = resource; ms.Unlock(); return 0
Create_Store ==
    /\ design = "callerid/threads"
    /\ \E t \in Threads :
         /\ threads[t].todo # <<>>
         /\ Head(threads[t].todo) = "store"
         /\ data' = [data EXCEPT !["artists"] =
                       MapSet(@, threads[t].id, threads[t].resource)]
         /\ threads' = [threads EXCEPT ![t] =
                          [@ EXCEPT !.todo = <<>>, !.ret = None]]
    /\ UNCHANGED <<design, kinds, guardArg, g, req, calls, sto, out,
                   pathPrefix>>

\* ------------------------------------------- concurrent storage methods
\* Goroutines (request handlers) in the methods of one MapStorage, on the
\* collection "artists", with what each locked section reads and writes:
\*   "library/steps"  src/mapstorage.go.  The receivers are values, so the
\*                    RWMutex a method locks is its own copy and excludes
\*                    nobody (MutexOf): a step is one access to the maps,
\*                    one iteration of a range loop included.
\*   "example/steps"  src/example/example_storage.go 183-380.  The receivers
\*                    are pointers and share one *sync.RWMutex: a step is
\*                    one locked section, the whole range loop included.
\* A method that has returned stays visible with its result until the
\* handler is done with it (Step_Return).

StepMethods == {"Create", "GetAll", "Update", "Delete", "DeleteAll",
                "DeleteMap"}

\* The locked sections of a method, by what they do.
Program(d, method) ==
    CASE method = "Create" -> <<"kind", "store">>
      [] method = "GetAll" -> <<"kind", "range">>
      [] method = "Update" -> <<"kind", "id", "store">>
      [] method = "Delete" -> <<"kind", "id", "delete">>
      [] method = "DeleteAll" -> <<"kind", "clear">>
      [] method = "DeleteMap" ->
             IF d = "library/steps" THEN <<"kind", "drop">> ELSE <<"drop">>

\* The resource a Create and an Update store.
ResourceOf(method) ==
    DecodeMap(ObjectBody(
        IF method = "Create"
        THEN {<<"name", JString("Gorillaz")>>, <<"albums", JNumber(0, 3)>>}
        ELSE {<<"name", JString("Gorillaz")>>, <<"plays", JNumber(1, 1)>>})).val

\* The ids held in the collection (none when it is not registered).
Contents(d) == IF "artists" \in DOMAIN d THEN DOMAIN d["artists"] ELSE {}

\* History: a running GetAll notes every content the collection has
\* between its call and its return.
Observe(th, d) ==
    IF th.method = "GetAll" /\ th.ret = "running"
    THEN [th EXCEPT !.snaps = @ \cup {Contents(d)}]
    ELSE th

StepTo(t, th, d) ==
    /\ data' = d
    /\ threads' = [u \in Threads |->
                     IF u = t THEN th ELSE Observe(threads[u], d)]
    /\ UNCHANGED <<design, kinds, guardArg, g, req, calls, sto, out,
                   pathPrefix>>

At(t, section) ==
    /\ design \in {"library/steps", "example/steps"}
    /\ threads[t].todo # <<>>
    /\ Head(threads[t].todo) = section

Returns(th, ret) == [th EXCEPT !.todo = <<>>, !.ret = ret]
GoesOn(th) == [th EXCEPT !.todo = Tail(@)]

\* main registers the collection while no request is served.
Step_Main_AddMap ==
    /\ design \in {"library/steps", "example/steps"}
    /\ \A t \in Threads : threads[t] = Idle
    /\ "artists" \notin DOMAIN data
    /\ data' = IF design = "library/steps"
               THEN Ms_AddMap(data, "artists").data
               ELSE Ex_AddMap(data, "artists")
    /\ UNCHANGED <<design, kinds, guardArg, g, req, calls, sto, out, threads,
                   pathPrefix>>

\* A handler calls a method of the storage.
Step_Call ==
    /\ design \in {"library/steps", "example/steps"}
    /\ \E t \in Threads, method \in StepMethods, id \in Ids :
         /\ threads[t] = Idle
         /\ StepTo(t, [method |-> method,
                       todo |-> Program(design, method),
                       inside |-> FALSE,
                       id |-> IF method \in {"Update", "Delete"}
                              THEN id ELSE NoId,
                       acc |-> {},
                       snaps |-> IF method = "GetAll"
                                 THEN {Contents(data)} ELSE {},
                       ret |-> "running"],
                   data)

\* RLock; _, ok := ms.data[kind]; RUnlock; if !ok { return ... }
\* (the library's Create returns its zero values, i.e. None)
Step_CheckKind ==
    \E t \in Threads :
      /\ At(t, "kind")
      /\ StepTo(t, IF "artists" \in DOMAIN data
                   THEN GoesOn(threads[t])
                   ELSE Returns(threads[t],
                                IF design = "library/steps"
                                   /\ threads[t].method = "Create"
                                THEN None ELSE KindNotFound),
                data)

\* RLock; _, ok = ms.data[kind][id]; RUnlock; if !ok { return ... }
\* (reading a missing inner map finds nothing)
Step_CheckId ==
    \E t \in Threads :
      /\ At(t, "id")
      /\ StepTo(t, IF threads[t].id \in Contents(data)
                   THEN GoesOn(threads[t])
                   ELSE Returns(threads[t], ResourceNotFound),
                data)

\* Lock; ms.data[kind][id] = resource; Unlock.  Create makes the id itself.
\* An assignment to an entry of a missing inner map panics.
Step_Store ==
    \E t \in Threads, newid \in Ids :
      /\ At(t, "store")
      /\ (threads[t].method = "Update") => (newid = threads[t].id)
      /\ IF "artists" \in DOMAIN data
         THEN StepTo(t, Returns([threads[t] EXCEPT !.id = newid], None),
                     [data EXCEPT !["artists"] =
                        MapSet(@, newid, ResourceOf(threads[t].method))])
         ELSE StepTo(t, Returns(threads[t], "panic"), data)

\* Lock; delete(ms.data[kind], id); Unlock  (no-op on a missing inner map)
Step_Delete ==
    \E t \in Threads :
      /\ At(t, "delete")
      /\ StepTo(t, Returns(threads[t], None),
                IF "artists" \in DOMAIN data
                THEN [data EXCEPT !["artists"] = MapDelete(@, threads[t].id)]
                ELSE data)

\* Lock; for id := range ms.data[kind] { delete(ms.data[kind], id) }; Unlock
Step_Clear ==
    \E t \in Threads :
      /\ At(t, "clear")
      /\ IF design = "example/steps"
         THEN StepTo(t, Returns(threads[t], None),
                     IF "artists" \in DOMAIN data
                     THEN [data EXCEPT !["artists"] = EmptyMap]
                     ELSE data)
         ELSE IF Contents(data) = {}
         THEN StepTo(t, Returns(threads[t], None), data)
         ELSE \E id \in Contents(data) :
                StepTo(t, threads[t],
                       [data EXCEPT !["artists"] = MapDelete(@, id)])

\* RLock; for _, resource := range ms.data[kind] { append }; RUnlock
\* acc: the ids whose resources were appended.  An entry removed before
\* the loop reaches it is not produced.
Step_Range ==
    \E t \in Threads :
      /\ At(t, "range")
      /\ IF design = "example/steps"
         THEN StepTo(t, Returns([threads[t] EXCEPT !.acc = Contents(data)],
                                None), data)
         ELSE IF Contents(data) \ threads[t].acc = {}
         THEN StepTo(t, Returns(threads[t], None), data)
         ELSE \E id \in Contents(data) \ threads[t].acc :
                StepTo(t, [threads[t] EXCEPT !.acc = @ \cup {id}], data)

\* Lock; delete(ms.data, kind); Unlock
Step_Drop ==
    \E t \in Threads :
      /\ At(t, "drop")
      /\ StepTo(t, Returns(threads[t], None), MapDelete(data, "artists"))

\* The handler has written its response.
Step_Return ==
    /\ design \in {"library/steps", "example/steps"}
    /\ \E t \in Threads :
         /\ threads[t].method # ""
         /\ threads[t].todo = <<>>
         /\ StepTo(t, Idle, data)

\* -------------------------------------------------------- specifications

\* After NewMapStorage() and MountAPI(router, storage, guard).
InitDesign(d, guards, ks) ==
    /\ design = d
    /\ kinds = ks
    /\ guardArg \in guards
    /\ g = MountAPI(guardArg)
    /\ data = EmptyMap
    /\ req = Request("MountAPI", "-", "", NoId, "", NoBody)
    /\ calls = <<>>
    /\ sto = NotCalled(EmptyMap)
    /\ out = NoResponse
    /\ threads = [t \in Threads |-> Idle]
    /\ pathPrefix \in IF d = "prefix"
                      THEN {[arg |-> p, at |-> "called", val |-> p] :
                              p \in PrefixArgs}
                      ELSE {[arg |-> <<>>, at |-> "-", val |-> <<>>]}

InitGuarded == InitDesign("guarded", GuardArgs, {"artists"})

NextGuarded ==
    \/ POST_kind
    \/ GET_kind
    \/ GET_resource
    \/ PUT_resource
    \/ DELETE_kind
    \/ DELETE_resource
    \/ Remount
    \/ MapStorage_AddMap
    \/ MapStorage_DeleteMap

SpecGuarded == InitGuarded /\ [][NextGuarded]_vars

\* The guarded API mounted with the example MapGuard, as the example's
\* main() does; "tracks" is a collection the guard's map does not list.
InitMapGuard == InitDesign("guarded", {"MapGuard"}, {"artists", "tracks"})

NextMapGuard ==
    \/ POST_kind
    \/ GET_kind
    \/ GET_resource
    \/ PUT_resource
    \/ DELETE_kind
    \/ DELETE_resource
    \/ MapStorage_AddMap
    \/ MapStorage_DeleteMap

SpecMapGuard == InitMapGuard /\ [][NextMapGuard]_vars

\* The guarded API with every request the router receives on the two path
\* shapes.
NextRoutes == NextGuarded \/ OPTIONS_kind \/ OPTIONS_resource \/ NoRoute

SpecRoutes == InitGuarded /\ [][NextRoutes]_vars

\* The example MapStorage alone, with both example collections in use: the
\* revision that receives the resource, and the revision that decodes.
InitExample == InitDesign("example", {"nil"}, {"artists", "albums"})

InitDecoder == InitDesign("decoder", {"nil"}, {"artists", "albums"})

NextExample ==
    \/ MapStorage_Create
    \/ MapStorage_Get
    \/ MapStorage_GetAll
    \/ MapStorage_Update
    \/ MapStorage_Delete
    \/ MapStorage_DeleteAll
    \/ AddMap
    \/ DeleteMap

SpecExample == InitExample /\ [][NextExample]_vars

SpecDecoder == InitDecoder /\ [][NextExample]_vars

\* The StorageError dispatcher over the StorageError MapStorage.
InitErrcode == InitDesign("errcode", {"nil"}, {"artists", "albums"})

NextErrcode ==
    \/ NewAPI_POST_kind
    \/ NewAPI_GET_kind
    \/ NewAPI_GET_resource
    \/ NewAPI_PUT_resource
    \/ NewAPI_DELETE_kind
    \/ NewAPI_DELETE_resource
    \/ MapStorage_AddMap
    \/ MapStorage_DeleteMap

SpecErrcode == InitErrcode /\ [][NextErrcode]_vars

\* The two dispatchers of src/api.go.
InitDispatchers ==
    InitGuarded \/ InitDesign("errcode", {"nil"}, {"artists"})
NextDispatchers == NextGuarded \/ NextErrcode
SpecDispatchers == InitDispatchers /\ [][NextDispatchers]_vars

\* The StorageError dispatcher over an arbitrary Storage.
InitAnyStorage == InitDesign("errcode/any", {"nil"}, {"artists", "albums"})
SpecAnyStorage == InitAnyStorage /\ [][NewAPI_AnyStorage]_vars

\* The storages in src/: the example MapStorage called directly, and the
\* library's MapStorage behind the StorageError dispatcher.
InitStorages == InitExample \/ InitDecoder \/ InitErrcode

NextStorages == NextExample \/ NextErrcode

SpecStorages == InitStorages /\ [][NextStorages]_vars

\* Goroutines in the methods of one MapStorage.
InitThreads ==
    \/ InitDesign("library/threads", {"nil"}, {})
    \/ InitDesign("example/threads", {"nil"}, {})

NextThreads == Call \/ RLock \/ Lock \/ RUnlock \/ Unlock

SpecThreads == InitThreads /\ [][NextThreads]_vars

\* The same with the scheduling of the Go runtime: a goroutine that can
\* take a step is not held up for ever (a goroutine waits only in Lock and
\* RLock), and the set of storage calls is finite.
ThreadNext(t) ==
    /\ RLock \/ Lock \/ RUnlock \/ Unlock
    /\ threads'[t] # threads[t]

SpecThreadsFair ==
    /\ SpecThreads
    /\ \A t \in Threads : WF_vars(ThreadNext(t))
    /\ <>[][~Call]_vars

\* Goroutines in the methods of one MapStorage, with their effects.
InitSteps ==
    \/ InitDesign("library/steps", {"nil"}, {"artists"})
    \/ InitDesign("example/steps", {"nil"}, {"artists"})

NextSteps ==
    \/ Step_Main_AddMap
    \/ Step_Call
    \/ Step_CheckKind
    \/ Step_CheckId
    \/ Step_Store
    \/ Step_Delete
    \/ Step_Clear
    \/ Step_Range
    \/ Step_Drop
    \/ Step_Return

SpecSteps == InitSteps /\ [][NextSteps]_vars

\* The API with caller-supplied ids.
InitCallerId == InitDesign("callerid", {"nil"}, {"artists"})

NextCallerId ==
    \/ Handle_Create
    \/ Handle_Get
    \/ Handle_Update
    \/ Handle_Delete
    \/ MapStorage_AddKind
    \/ MapStorage_DeleteKind

SpecCallerId == InitCallerId /\ [][NextCallerId]_vars

\* Goroutines creating resources under caller-supplied ids.
InitCreators == InitDesign("callerid/threads", {"nil"}, {"artists"})

NextCreators ==
    \/ Main_AddKind
    \/ Create_Call
    \/ Create_CheckKind
    \/ Create_CheckId
    \/ Create_Store

SpecCreators == InitCreators /\ [][NextCreators]_vars

\* NewAPI called with each path prefix.
InitPrefix == InitDesign("prefix", {"nil"}, {})

SpecPrefix == InitPrefix /\ [][NewAPI]_vars

\* Every design served one request at a time.
Init == InitGuarded \/ InitExample \/ InitDecoder \/ InitErrcode

Next ==
    \/ POST_kind
    \/ GET_kind
    \/ GET_resource
    \/ PUT_resource
    \/ DELETE_kind
    \/ DELETE_resource
    \/ Remount
    \/ MapStorage_Create
    \/ MapStorage_Get
    \/ MapStorage_GetAll
    \/ MapStorage_Update
    \/ MapStorage_Delete
    \/ MapStorage_DeleteAll
    \/ AddMap
    \/ DeleteMap
    \/ NewAPI_POST_kind
    \/ NewAPI_GET_kind
    \/ NewAPI_GET_resource
    \/ NewAPI_PUT_resource
    \/ NewAPI_DELETE_kind
    \/ NewAPI_DELETE_resource
    \/ MapStorage_AddMap
    \/ MapStorage_DeleteMap

Spec == Init /\ [][Next]_vars

\* ----------------------------------------------------------------- claims

\* C1: for every CRUD request handled by the guarded dispatcher, if
\* Authenticate answered not ok the response status is 401 and no storage
\* method was invoked for the request.
C1_AuthnFailureIs401 ==
    (/\ design = "guarded"
     /\ <<req.method, req.shape>> \in CrudRoutes
     /\ Len(calls) >= 1
     /\ calls[1].ev = "Authenticate"
     /\ ~calls[1].ok)
    => /\ out.status = 401
       /\ ~sto.called
       /\ \A i \in 1..Len(calls) : calls[i].ev \notin {"Authorize", "Storage"}

\* A POST with a well-formed body on a registered collection was refused by
\* Authenticate.
C1_Witness ==
    /\ design = "guarded"
    /\ req.method = "POST"
    /\ req.body.kind = "object"
    /\ req.kind \in DOMAIN data
    /\ calls # <<>>
    /\ calls[1].ev = "Authenticate"
    /\ ~calls[1].ok
    /\ out.status = 401

\* C2: for every CRUD request handled by the guarded dispatcher, if
\* Authenticate answered ok and Authorize answered not ok the response
\* status is 403 and no storage method was invoked for the request.
C2_AuthzFailureIs403 ==
    (/\ design = "guarded"
     /\ <<req.method, req.shape>> \in CrudRoutes
     /\ Len(calls) >= 2
     /\ calls[1].ev = "Authenticate"
     /\ calls[1].ok
     /\ calls[2].ev = "Authorize"
     /\ ~calls[2].ok)
    => /\ out.status = 403
       /\ ~sto.called
       /\ \A i \in 1..Len(calls) : calls[i].ev # "Storage"

\* A DELETE of an existing resource was refused by Authorize, and the
\* resource is still there.
C2_Witness ==
    /\ design = "guarded"
    /\ req.method = "DELETE"
    /\ req.shape = "resource"
    /\ Len(calls) = 2
    /\ calls[1].ok
    /\ ~calls[2].ok
    /\ out.status = 403
    /\ req.kind \in DOMAIN data
    /\ req.id \in DOMAIN data[req.kind]

\* C3: within one request the calls are ordered Authenticate, Authorize,
\* storage: Authorize is called only after Authenticate answered ok and with
\* the client Authenticate returned, and a storage method is called only
\* after both answered ok.
C3_AuthenticateAuthorizeStorage ==
    (design = "guarded" /\ <<req.method, req.shape>> \in CrudRoutes)
    => /\ Len(calls) \in 1..3
       /\ calls[1].ev = "Authenticate"
       /\ calls[1].params = req.params
       /\ \A i \in 1..Len(calls) :
            /\ (calls[i].ev = "Authenticate") => (i = 1)
            /\ (calls[i].ev = "Authorize") =>
                 (/\ i = 2
                  /\ calls[1].ok
                  /\ calls[i].client = calls[1].client)
            /\ (calls[i].ev = "Storage") =>
                 (/\ i = 3
                  /\ calls[1].ok
                  /\ calls[2].ev = "Authorize"
                  /\ calls[2].ok)
       /\ sto.called => (Len(calls) = 3 /\ calls[3].ev = "Storage")

\* A PUT went through Authenticate (client "bob"), Authorize and the storage
\* call.
C3_Witness ==
    /\ design = "guarded"
    /\ req.method = "PUT"
    /\ Len(calls) = 3
    /\ calls[1].client = "bob"
    /\ calls[2].ev = "Authorize"
    /\ calls[2].client = "bob"
    /\ calls[3].ev = "Storage"
    /\ sto.called

\* C4: after MountAPI was called with a nil guard the default guard is in
\* use and allows everything: no request is answered 401 or 403, both guard
\* calls answer ok, and every request reaches the decoding of its body and,
\* unless that fails, the storage call.
C4_NilGuardAllowsEverything ==
    (design = "guarded" /\ guardArg = "nil")
    => /\ g = "defaultGuard"
       /\ (<<req.method, req.shape>> \in CrudRoutes) =>
            (/\ out.status \notin {401, 403}
             /\ Len(calls) >= 2
             /\ calls[1].ok
             /\ calls[2].ev = "Authorize"
             /\ calls[2].ok
             /\ \/ sto.called
                \/ /\ req.method \in {"POST", "PUT"}
                   /\ req.body.kind # "object"
                   /\ out.status = 400)

\* Under the default guard a DELETE of a whole collection, carrying
\* parameters, reached the storage and emptied the collection.
C4_Witness ==
    /\ design = "guarded"
    /\ guardArg = "nil"
    /\ req.method = "DELETE"
    /\ req.shape = "kind"
    /\ req.params = "key=k1"
    /\ sto.called
    /\ out.status = 200

\* C5: the action handed to Authorize is the one implied by the method and
\* the path shape, and the storage method then called is the same
\* operation, on the collection (and id) of the request.
C5_ActionIsOperation ==
    LET implied ==
            {<<"POST", "kind", ActionCreate, "Create">>,
             <<"GET", "kind", ActionGetAll, "GetAll">>,
             <<"GET", "resource", ActionGet, "Get">>,
             <<"PUT", "resource", ActionUpdate, "Update">>,
             <<"DELETE", "kind", ActionDeleteAll, "DeleteAll">>,
             <<"DELETE", "resource", ActionDelete, "Delete">>}
    IN  (design = "guarded" /\ <<req.method, req.shape>> \in CrudRoutes)
        => \E t \in implied :
             /\ t[1] = req.method
             /\ t[2] = req.shape
             /\ \A i \in 1..Len(calls) :
                  /\ (calls[i].ev = "Authorize") =>
                       (calls[i].action = t[3] /\ calls[i].kind = req.kind)
                  /\ (calls[i].ev = "Storage") =>
                       (/\ calls[i].action = t[4]
                        /\ calls[i].kind = req.kind
                        /\ calls[i].id = req.id)

\* A DELETE of one resource was authorized as ActionDelete and performed by
\* Delete, leaving another resource of the collection in place.
C5_Witness ==
    /\ design = "guarded"
    /\ req.method = "DELETE"
    /\ req.shape = "resource"
    /\ Len(calls) = 3
    /\ calls[2].action = ActionDelete
    /\ calls[3].action = "Delete"
    /\ out.status = 200
    /\ DOMAIN data[req.kind] # {}

\* C6 as stated: in a dispatcher that decodes the body itself, a POST or
\* PUT whose body is not parseable JSON is answered 400 "malformed json"
\* and no storage method is invoked.
C6_MalformedIs400 ==
    (/\ design \in {"guarded", "errcode"}
     /\ req.method \in {"POST", "PUT"}
     /\ req.body = Malformed)
    => /\ out.status = 400
       /\ out.error = "malformed json"
       /\ ~sto.called
       /\ \A i \in 1..Len(calls) : calls[i].ev # "Storage"

\* C6, amended: in a dispatcher that decodes the body itself, a POST or PUT
\* whose body is not parseable JSON and which the guard (where there is
\* one) admits is answered 400 "malformed json" and no storage method is
\* invoked.
C6_AdmittedMalformedIs400 ==
    (/\ design \in {"guarded", "errcode"}
     /\ req.method \in {"POST", "PUT"}
     /\ req.body = Malformed
     /\ (design = "guarded") =>
          (Len(calls) >= 2 /\ calls[1].ok /\ calls[2].ok))
    => /\ out.status = 400
       /\ out.error = "malformed json"
       /\ ~sto.called
       /\ \A i \in 1..Len(calls) : calls[i].ev # "Storage"

\* An admitted PUT with a malformed body, aimed at an existing resource,
\* was answered 400.
C6_Witness ==
    /\ design = "guarded"
    /\ guardArg = "appGuard"
    /\ req.method = "PUT"
    /\ req.body = Malformed
    /\ Len(calls) = 2
    /\ calls[2].ok
    /\ out.status = 400
    /\ req.kind \in DOMAIN data
    /\ req.id \in DOMAIN data[req.kind]

\* C7: in the storage that decodes the body itself, Create and Update with
\* a malformed body return status 400 whatever the state of the collection
\* and of the resource.
C7_MalformedAlways400 ==
    (/\ design = "decoder"
     /\ req.method \in {"Create", "Update"}
     /\ req.body = Malformed)
    => (~sto.resp.nil /\ sto.resp.statusCode = 400)

\* C8: a Create or Update request with a malformed body leaves the set of
\* collections and every collection's id-to-resource map as they were, in
\* the dispatchers that decode and in the storage that decodes.
C8_MalformedNeverMutates ==
    [][(/\ req'.method \in {"POST", "PUT", "Create", "Update"}
        /\ req'.body = Malformed)
       => (data' = data /\ sto'.data = data)]_vars

\* The decoding storage refused an Update of an existing resource for its
\* malformed body; the resource is still stored.
C8_Witness ==
    /\ design = "decoder"
    /\ req.method = "Update"
    /\ req.body = Malformed
    /\ sto.called
    /\ sto.resp.statusCode = 400
    /\ req.kind \in DOMAIN data
    /\ req.id \in DOMAIN data[req.kind]
    /\ data[req.kind][req.id] # {}

\* C9: on a collection that is not registered, each of the six operations
\* (admitted by the guard, with a well-formed body) ends in a 404
\* "collection not found" ("kind not found") outcome and changes nothing
\* in the storage.
C9_UnregisteredIs404 ==
    [][(/\ req'.kind \notin DOMAIN data
        /\ \/ <<req'.method, req'.shape>> \in CrudRoutes
           \/ req'.method \in {"Create", "Get", "GetAll", "Update", "Delete",
                               "DeleteAll"}
        /\ req'.body.kind \in {"none", "object"}
        /\ (design = "guarded") =>
             (Len(calls') >= 2 /\ calls'[1].ok /\ calls'[2].ok))
       => (/\ data' = data
           /\ (design \in {"example", "decoder"}) =>
                (/\ ~sto'.resp.nil
                 /\ sto'.resp.statusCode = 404
                 /\ sto'.resp.err = "collection not found")
           /\ (design \in {"guarded", "errcode"}) =>
                (out'.status = 404 /\ out'.error = "kind not found"))]_vars

\* C10: Get, Update and Delete on an unknown collection report "collection
\* not found" ("kind not found"); "resource not found" is reported only
\* when the collection is registered and the id is absent from it.
C10_DistinctNotFound ==
    [][(/\ design \in {"decoder", "errcode"}
        /\ \/ req'.method \in {"Get", "Update", "Delete"}
           \/ /\ <<req'.method, req'.shape>> \in CrudRoutes
              /\ req'.shape = "resource"
        /\ req'.body.kind \in {"none", "object"}
        /\ sto'.called)
       => LET said == IF design = "decoder" THEN sto'.resp.err ELSE out'.error
          IN  /\ (req'.kind \notin DOMAIN data) =>
                   (said \in {"collection not found", "kind not found"})
              /\ (said = "resource not found") =>
                   (/\ req'.kind \in DOMAIN data
                    /\ req'.id \notin DOMAIN data[req'.kind])]_vars

\* C11: round trip.  When a Create on a registered collection succeeded
\* (201) with payload R and id I, the Get of I in that collection handled
\* next answers 200 and its result is exactly R.
C11_RoundTrip ==
    [][LET viaStorage == design = "decoder"
           created == IF viaStorage
                      THEN req.method = "Create" /\ sto.called
                           /\ ~sto.resp.nil /\ sto.resp.statusCode = 201
                      ELSE req.method = "POST" /\ out.status = 201
           I == IF viaStorage THEN sto.id ELSE out.id
           got == IF viaStorage
                  THEN req'.method = "Get"
                  ELSE req'.method = "GET" /\ req'.shape = "resource"
                       /\ sto'.called
       IN  (/\ design \in {"decoder", "guarded", "errcode"}
            /\ created
            /\ req.kind \in DOMAIN data
            /\ got
            /\ req'.kind = req.kind
            /\ req'.id = I)
           => IF viaStorage
              THEN /\ sto'.resp.statusCode = 200
                   /\ Encode(sto'.result)
                        = Result("object", SetToBag({req.body.obj}))
              ELSE /\ out'.status = 200
                   /\ out'.result
                        = Result("object", SetToBag({req.body.obj}))]_vars

C13_AbsentResourceIs404 ==
    [][(/\ design \in {"decoder", "errcode"}
        /\ req'.kind \in DOMAIN data
        /\ req'.id \notin DOMAIN data[req'.kind]
        /\ IF design = "decoder"
           THEN req'.method \in {"Update", "Delete"}
           ELSE /\ req'.method \in {"PUT", "DELETE"}
                /\ req'.shape = "resource"
                /\ req'.body.kind \in {"none", "object"})
       => (/\ data' = data
           /\ sto'.called
           /\ IF design = "decoder"
              THEN /\ ~sto'.resp.nil
                   /\ sto'.resp.statusCode = 404
                   /\ sto'.resp.err = "resource not found"
              ELSE /\ out'.status = 404
                   /\ out'.error = "resource not found")]_vars

\* A PUT of an id the collection does not hold, next to a resource it does
\* hold, was answered 404 "resource not found" and stored nothing.
C13_Witness ==
    /\ design = "errcode"
    /\ req.method = "PUT"
    /\ req.body.kind = "object"
    /\ out.status = 404
    /\ out.error = "resource not found"
    /\ req.kind \in DOMAIN data
    /\ DOMAIN data[req.kind] # {}
    /\ req.id \notin DOMAIN data[req.kind]

\* C14: in every state reached by a successful Delete of resource I of
\* collection C, a Get of I and a second Delete of I, handled next, both end
\* in 404 "resource not found" and change nothing.
C14_DeletedIsGone ==
    LET viaStorage == design = "decoder"
        deleted == IF viaStorage
                   THEN req.method = "Delete" /\ sto.called
                        /\ sto.resp.statusCode = 200
                   ELSE req.method = "DELETE" /\ req.shape = "resource"
                        /\ out.status = 200
        again == Request("DELETE", "resource", req.kind, req.id, "", NoBody)
        read == Request("GET", "resource", req.kind, req.id, "", NoBody)
        gone(o) == /\ o.status = 404
                   /\ o.error = "resource not found"
                   /\ o.result = NoResult
    IN  (design \in {"decoder", "errcode"} /\ deleted)
        => IF viaStorage
           THEN /\ Ex2_Get(data, req.kind, req.id).resp = resourceNotFound
                /\ Ex2_Get(data, req.kind, req.id).result = NoResult
                /\ Ex2_Delete(data, req.kind, req.id).resp = resourceNotFound
                /\ Ex2_Delete(data, req.kind, req.id).data = data
                /\ resourceNotFound.statusCode = 404
                /\ resourceNotFound.err = "resource not found"
           ELSE /\ gone(E_get(read).out)
                /\ gone(E_del(again).out)
                /\ E_del(again).sto.called
                /\ E_del(again).sto.data = data

\* A DELETE of a resource succeeded and left another resource of the
\* collection in place.
C14_Witness ==
    /\ design = "errcode"
    /\ req.method = "DELETE"
    /\ req.shape = "resource"
    /\ out.status = 200
    /\ req.kind \in DOMAIN data
    /\ req.id \notin DOMAIN data[req.kind]
    /\ DOMAIN data[req.kind] # {}

\* C15: a GetAll on a registered collection that holds no resource (never
\* populated, or cleared) answers 200 and its result is an empty sequence,
\* neither absent nor null.
C15_EmptyCollectionIsEmptyList ==
    (/\ design \in {"decoder", "errcode"}
     /\ \/ req.method = "GetAll"
        \/ req.method = "GET" /\ req.shape = "kind"
     /\ req.kind \in DOMAIN data
     /\ DOMAIN data[req.kind] = {})
    => IF design = "decoder"
       THEN /\ sto.resp.statusCode = 200
            /\ Encode(sto.result) = Result("array", EmptyBag)
       ELSE /\ out.status = 200
            /\ out.result = Result("array", EmptyBag)

\* C16: a DeleteAll on a registered collection answers 200 whether or not
\* the collection is empty, and leaves the collection registered and empty
\* and every other collection as it was; in the state it leaves, a second
\* DeleteAll answers 200 and changes nothing, and a Create on the
\* collection succeeds.
C16_DeleteAllIdempotent ==
    [][LET viaStorage == design = "decoder"
           C == req'.kind
       IN  (/\ design \in {"decoder", "errcode"}
            /\ IF viaStorage
               THEN req'.method = "DeleteAll"
               ELSE req'.method = "DELETE" /\ req'.shape = "kind"
            /\ C \in DOMAIN data)
           => /\ sto'.called
              /\ data' = [data EXCEPT ![C] = EmptyMap]
              /\ IF viaStorage
                 THEN /\ ~sto'.resp.nil
                      /\ sto'.resp.statusCode = 200
                      /\ Ex2_DeleteAll(data', C).resp.statusCode = 200
                      /\ Ex2_DeleteAll(data', C).data = data'
                      /\ \A o \in Objects, newid \in Ids :
                           LET r == Ex2_Create(data', C, ObjectBody(o), newid)
                           IN  /\ r.resp.statusCode = 201
                               /\ r.id = newid
                               /\ DOMAIN r.data[C] = {newid}
                 ELSE /\ out'.status = 200
                      /\ Ms_DeleteAll(data', C).resp.err = None
                      /\ Ms_DeleteAll(data', C).data = data'
                      /\ \A o \in Objects, now \in Ids :
                           LET r == Ms_Create(data', C,
                                              DecodeMap(ObjectBody(o)).val, now)
                           IN  /\ r.resp.err = None
                               /\ r.id = now
                               /\ DOMAIN r.data[C] = {now}]_vars

\* A DELETE of a whole collection that held resources (the other collection
\* still holds one) answered 200 and left the collection registered and
\* empty.
C16_Witness ==
    /\ design = "errcode"
    /\ req.method = "DELETE"
    /\ req.shape = "kind"
    /\ out.status = 200
    /\ req.kind \in DOMAIN data
    /\ data[req.kind] = EmptyMap
    /\ \E c \in DOMAIN data : DOMAIN data[c] # {}

\* C17: backend-generated ids never collide.  Every successful Create on a
\* registered collection returns an id the collection did not hold, and
\* every resource the collection held is still there unchanged.
C17_IdsNeverCollide ==
    [][LET viaStorage == design \in {"example", "decoder"}
           C == req'.kind
           I == sto'.id
       IN  (/\ C \in DOMAIN data
            /\ sto'.called
            /\ IF viaStorage
               THEN /\ req'.method = "Create"
                    /\ ~sto'.resp.nil
                    /\ sto'.resp.statusCode = 201
               ELSE /\ design = "errcode"
                    /\ req'.method = "POST"
                    /\ out'.status = 201)
           => (/\ I \notin DOMAIN data[C]
               /\ DOMAIN data'[C] = DOMAIN data[C] \cup {I}
               /\ \A j \in DOMAIN data[C] : data'[C][j] = data[C][j])]_vars

\* C18: MapStorage is thread-safe.  Two goroutines are never inside locked
\* sections of methods of the one MapStorage at the same time unless both
\* sections only read the maps.
C18_WritesAreExclusive ==
    \A t1, t2 \in Threads :
      (/\ design \in {"library/threads", "example/threads"}
       /\ t1 # t2
       /\ threads[t1].inside
       /\ threads[t2].inside)
      => (Head(threads[t1].todo) = "R" /\ Head(threads[t2].todo) = "R")

\* C19: with caller-supplied ids, Create(kind, id, resource) on a
\* registered kind that holds a resource under id returns ResourceExists
\* and leaves the maps as they are, and a POST whose "id" slugifies to id
\* is answered 409 "resource already exists" with the maps as they are.
C19_DuplicateIdIs409 ==
    design = "callerid" =>
      \A kind \in DOMAIN data :
        \A id \in DOMAIN data[kind] :
          /\ \A v \in ResourceValues :
               LET r == Ci_Create(data, kind, id, Iface(DecodeValue(v)))
               IN  /\ r.resp.err = ResourceExists
                   /\ r.data = data
          /\ \A o \in Payloads :
               LET rq == Request("POST", "kind", kind, NoId, "",
                                 ObjectBody(o))
                   h == API_Create(rq)
               IN  (\E n \in Names :
                       <<"id", JString(n)>> \in o /\ Slugify(n) = id)
                   => /\ h.out.status = 409
                      /\ h.out.error = "resource already exists"
                      /\ h.sto.data = data

\* A POST was answered 409 for an id in use, the resource kept.
C19_Witness ==
    /\ design = "callerid"
    /\ req.method = "POST"
    /\ out.status = 409
    /\ sto.resp.err = ResourceExists
    /\ \E n \in Names :
         /\ <<"id", JString(n)>> \in req.body.obj
         /\ req.kind \in DOMAIN data
         /\ Slugify(n) \in DOMAIN data[req.kind]
         /\ <<"resource", JString("Gorillaz")>> \in req.body.obj
         /\ data[req.kind][Slugify(n)] # Iface(JString("Gorillaz"))

\* C20: with caller-supplied ids, a POST or PUT whose top-level JSON
\* object has no "id" field is answered 400 and storage is not called.
C20_MissingIdIs400 ==
    (/\ design = "callerid"
     /\ req.method \in {"POST", "PUT"}
     /\ req.body.kind = "object"
     /\ ~HasKey(req.body.obj, "id"))
    => (out.status = 400 /\ ~sto.called)

\* C21: whenever the dispatcher called storage for a request, the status
\* and the error of the response are the status code and the error message
\* storage returned, whatever they are; a response that is not storage's is
\* a 400, a 401 or a 403.
C21_StorageStatusVerbatim ==
    design = "guarded" =>
      /\ (req.shape \in {"kind", "resource"} /\ sto.called)
         => (out.status = sto.resp.statusCode /\ out.error = sto.resp.err)
      /\ (req.shape \in {"kind", "resource"} /\ ~sto.called)
         => out.status \in {400, 401, 403}
      /\ \A statusCode \in {200, 201, 204, 404, 409, 418, 500, 503},
            err \in {"", "resource not found", "storage failure"} :
           LET r == StoRet(NoId, NoResult, StatusResponse(statusCode, err),
                           data)
               o == WriteStorageResponse(r, NoId, NoResult)
           IN  o.status = statusCode /\ o.error = err

\* Storage's 404 and its message went out as the response of a GET.
C21_Witness ==
    /\ design = "guarded"
    /\ req.method = "GET"
    /\ sto.called
    /\ sto.resp.statusCode = 404
    /\ out.status = 404
    /\ out.error = sto.resp.err
    /\ out.error # ""

\* C22: a request on /{kind} or /{kind}/{id} whose method has no handler
\* on that shape is answered 405, and no guard or storage method is called
\* for it.
C22_UnroutedMethodIs405 ==
    (/\ design = "guarded"
     /\ req.shape \in {"kind", "resource"}
     /\ Route(req.method, req.shape) = "none")
    => (out.status = 405 /\ calls = <<>> /\ ~sto.called)

\* C23: OPTIONS /{kind} is answered 200 with Allow holding POST, GET and
\* DELETE and not PUT; OPTIONS /{kind}/{id} is answered 200 with Allow
\* holding PUT, GET and DELETE and not POST.
C23_AllowListsRoutedMethods ==
    (design = "guarded" /\ req.method = "OPTIONS")
    => /\ out.status = 200
       /\ \A m \in {"POST", "GET", "PUT", "DELETE"} :
            m \in out.allow <=> <<m, req.shape>> \in CrudRoutes

\* C24: in every response, "id" is non-empty only after a successful
\* Create, "result" is present only after a successful Get or GetAll, and a
\* 400, 401, 403 or 404 response carries the "error" field alone.
C24_EnvelopeFields ==
    (design = "guarded" /\ req.shape \in {"kind", "resource"})
    => /\ out.id # NoId => (req.method = "POST" /\ out.status = 201)
       /\ out.result.tag # "absent"
          => (req.method = "GET" /\ out.status = 200)
       /\ out.status \in {400, 401, 403, 404}
          => (out.id = NoId /\ out.result.tag = "absent")

\* C25: NewAPI completes for every path prefix and mounts the routes on
\* "/api" if the argument has fewer than 2 characters or does not start
\* with '/', else on the argument without its trailing slashes; the prefix
\* mounted on is non-empty, starts with '/' and does not end with '/'.
C25_PrefixNormalized ==
    (design = "prefix" /\ pathPrefix.at # "called")
    => LET p == pathPrefix.val
       IN  /\ pathPrefix.at = "mounted"
           /\ p # <<>>
           /\ p[1] = "/"
           /\ p[Len(p)] # "/"
           /\ (Len(pathPrefix.arg) < 2 \/ pathPrefix.arg[1] # "/")
              => p = <<"/", "a", "p", "i">>

\* C26: no request makes a handler panic: whatever the body, a Create
\* whose "id" is no JSON string included, the handler ends by writing a
\* 2xx or 4xx response.
C26_HandlersAlwaysRespond ==
    (design = "callerid" /\ req.method \in {"POST", "GET", "PUT", "DELETE"})
    => out.status \in {200, 201, 400, 404, 409}

\* C27: the query parameters of a request are the parameters the guard's
\* Authenticate receives and the parameters the storage method called for
\* the request receives.
C27_ParamsReachGuardAndStorage ==
    (design = "guarded" /\ req.shape \in {"kind", "resource"})
    => \A i \in DOMAIN calls :
         calls[i].ev \in {"Authenticate", "Storage"}
         => calls[i].params = req.params

\* C28: with the example MapGuard no request is answered 401; a request
\* whose action is listed in ValidActions for its kind is not answered 403;
\* every other request, on a kind the map does not list included, is
\* answered 403 "action not allowed for this kind of resource" and storage
\* is not called.
C28_MapGuardAllowsListedActions ==
    LET implied ==
            {<<"POST", "kind", ActionCreate>>,
             <<"GET", "kind", ActionGetAll>>,
             <<"GET", "resource", ActionGet>>,
             <<"PUT", "resource", ActionUpdate>>,
             <<"DELETE", "kind", ActionDeleteAll>>,
             <<"DELETE", "resource", ActionDelete>>}
        listed ==
            [artists |-> {ActionCreate, ActionGet, ActionUpdate},
             albums |-> {ActionCreate, ActionGet, ActionGetAll, ActionUpdate},
             tracks |-> {}]
    IN  (design = "guarded" /\ g = "MapGuard"
         /\ <<req.method, req.shape>> \in CrudRoutes)
        => \E t \in implied :
             /\ t[1] = req.method
             /\ t[2] = req.shape
             /\ out.status # 401
             /\ t[3] \in listed[req.kind] => out.status # 403
             /\ t[3] \notin listed[req.kind]
                => /\ out.status = 403
                   /\ out.error = "action not allowed for this kind of resource"
                   /\ ~sto.called
                   /\ \A i \in DOMAIN calls : calls[i].ev # "Storage"

\* GetAll, listed for albums only, was refused on artists while artists
\* holds a resource created through the API.
C28_Witness ==
    /\ design = "guarded"
    /\ g = "MapGuard"
    /\ req.method = "GET"
    /\ req.shape = "kind"
    /\ req.kind = "artists"
    /\ out.status = 403
    /\ "artists" \in DOMAIN data
    /\ DOMAIN data["artists"] # {}

\* C29: for a kind that is not registered, AddMap followed by DeleteMap
\* both return None and leave the storage as it was before AddMap, and
\* DeleteMap alone returns KindNotFound and changes nothing.
C29_DeleteMapRevertsAddMap ==
    design = "errcode" =>
      \A kind \in Kinds \ DOMAIN data :
        LET added == Ms_AddMap(data, kind)
            reverted == Ms_DeleteMap(added.data, kind)
            missing == Ms_DeleteMap(data, kind)
        IN  /\ added.resp.err = None
            /\ kind \in DOMAIN added.data
            /\ reverted.resp.err = None
            /\ reverted.data = data
            /\ missing.resp.err = KindNotFound
            /\ missing.data = data

\* DeleteMap returned None for a kind while the other kind holds a
\* resource.
C29_Witness ==
    /\ design = "errcode"
    /\ req.method = "DeleteMap"
    /\ sto.resp.err = None
    /\ req.kind \notin DOMAIN data
    /\ \E k \in DOMAIN data : DOMAIN data[k] # {}

\* C30: of the concurrent Create calls with the same kind and id, on a
\* storage that did not hold the id, at most one returns success (0); the
\* others return ResourceExists.
C30_OneCreateWins ==
    design = "callerid/threads" =>
      \A t1, t2 \in Threads :
        (/\ t1 # t2
         /\ threads[t1].method = "Create"
         /\ threads[t2].method = "Create"
         /\ threads[t1].id = threads[t2].id
         /\ threads[t1].ret = None)
        => threads[t2].ret \in {"running", ResourceExists}

\* C35: a Create, Get, GetAll, Update, Delete or DeleteAll on collection C
\* leaves the set of registered collections and the contents of every
\* other collection as they were.
C35_CollectionsIsolated ==
    [][(/\ design \in {"example", "decoder", "errcode"}
        /\ req'.method \notin {"AddMap", "DeleteMap"})
       => /\ DOMAIN data' = DOMAIN data
          /\ \A k \in DOMAIN data \ {req'.kind} : data'[k] = data[k]]_vars

\* A resource was deleted from one collection while the other collection
\* holds a resource under the same id.
C35_Witness ==
    /\ design = "errcode"
    /\ req.method = "DELETE"
    /\ req.shape = "resource"
    /\ out.status = 200
    /\ \E k \in DOMAIN data \ {req.kind} : req.id \in DOMAIN data[k]

\* C37: in the StorageError dispatcher, a storage call that returned a
\* StorageError other than None is answered with a status outside 2xx and
\* a non-empty error message.
C37_EveryStorageErrorIsReported ==
    (/\ design = "errcode/any"
     /\ sto.called
     /\ sto.resp.err # None)
    => /\ out.status \notin {200, 201}
       /\ out.error # ""

\* C36: every CRUD request handled in any reachable state gets exactly one
\* response: the handler calls WriteHeader at most once, never after the
\* envelope was encoded, and encodes exactly one envelope; what the client
\* is sent is the response of the handler.
C36_ExactlyOneResponse ==
    \A rq \in CrudRequests, c \in AnswersOf(g) :
      \A newid \in IF rq.method = "POST" THEN Ids ELSE {NoId} :
        LET w == Writes(rq, c, newid)
            headers == {i \in 1..Len(w) : w[i].call = "WriteHeader"}
            encodes == {i \in 1..Len(w) : w[i].call = "Encode"}
        IN  /\ Cardinality(headers) <= 1
            /\ Cardinality(encodes) = 1
            /\ \A i \in headers, j \in encodes : i < j
            /\ Seen(w) = Answer(rq, c, newid)

\* A request was denied by Authorize: the 403 envelope was the one
\* response, after both guard calls.
C36_Witness ==
    /\ design = "guarded"
    /\ Len(calls) = 2
    /\ out.status = 403
    /\ \E c \in AnswersOf(g) :
         /\ ~c.az.ok
         /\ Len(Guarded_writes(req, c, NoId)) = 2
         /\ Seen(Guarded_writes(req, c, NoId)) = out

\* C38: the guard that the handlers of a mounted API ask stays the guard
\* that API was mounted with, whatever is mounted afterwards.
C38_FirstGuardStays ==
    [][design = "guarded" => g' = g]_vars

\* C39: AddMap on a collection that is registered leaves the resources of
\* that collection as they were.
C39_AddMapKeepsResources ==
    [][(req'.method = "AddMap" /\ req'.kind \in DOMAIN data)
       => (/\ req'.kind \in DOMAIN data'
           /\ data'[req'.kind] = data[req'.kind])]_vars

C31_DeletedStaysAbsent ==
    [][\A id \in Contents(data') \ Contents(data) :
         \E t \in Threads :
           /\ threads[t].method = "Create"
           /\ threads[t].todo = <<"store">>
           /\ threads'[t].ret = None
           /\ threads'[t].id = id]_vars

\* C32: no storage method writes into the resource map of a collection
\* that is not registered: no method ends in a panic.
C32_NoWriteToMissingMap ==
    \A t \in Threads :
      (design \in {"library/steps", "example/steps"}
       /\ threads[t].method # "")
      => threads[t].ret # "panic"

\* C34: what a GetAll returned is the content the collection had at one
\* instant between the call and the return.
C34_GetAllIsSnapshot ==
    \A t \in Threads :
      (/\ design \in {"library/steps", "example/steps"}
       /\ threads[t].method = "GetAll"
       /\ threads[t].todo = <<>>
       /\ threads[t].ret = None)
      => threads[t].acc \in threads[t].snaps

====
